---- MODULE Spec2Model ----
(***************************************************************************)
(* The dashboard's client-side data layer: the query hooks of useApi.ts,   *)
(* the query client of App.tsx and the fetch layer (fetchApi), driving the *)
(* shared query cache.                                                     *)
(*                                                                         *)
(* The hooks, the client options and fetchApi are translated from the      *)
(* TypeScript sources.  The cache engine itself (entries, subscriptions,   *)
(* staleness, in-flight slot, interval and eviction timers, invalidation)  *)
(* is not among the repository's sources: the hooks hand their options to  *)
(* useQuery of @tanstack/react-query.  The engine is therefore modelled    *)
(* from sections 3, 4.1, 4.2 and 5 of the design specification.            *)
(*                                                                         *)
(* Time is kept in milliseconds.  The clock advances from one instant at   *)
(* which the cache's view of time changes (a timer falls due, an entry is  *)
(* at the last instant of its freshness or at the first of its staleness)  *)
(* to the next such instant; handlers run at these instants.               *)
(***************************************************************************)
EXTENDS Integers, Sequences, FiniteSets, TLC

VARIABLES
    now,      \* the clock, in ms
    cache,    \* the query cache: a set of QueryEntry records
    obs,      \* per observer: the hook call it is mounted with, or Unmounted
    issued,   \* per serialized key: number of network calls issued so far
    net,      \* network requests on the wire: records [hash, id]
    ops,      \* number of view operations so far (mount, unmount, rerender, invalidate)
    polls,    \* number of interval timer firings so far
    pool,     \* the hook calls the views of this run use
    mutation, \* the state of the calculator mutation: idle, pending, success, error
    sentAt,   \* per serialized key: the time the last network call on the wire was
              \* issued (0 with none on the wire)
    page,     \* the PricesDashboard page: its state, chart instances and listeners
    last      \* what the last step did (the handler that ran and its outcome)

vars == <<now, cache, obs, issued, net, ops, polls, pool, mutation, sentAt, page, last>>

----------------------------------------------------------------------------
(* Bounds of the model *)

MaxFetches == 2
MaxOps == 3
MaxPolls == 3
NumObservers == 2
MaxSeries == 3

----------------------------------------------------------------------------
(* Values *)

None == [none |-> TRUE]

Str(s) == [str |-> s]
Num(n) == [num |-> n]

----------------------------------------------------------------------------
(* Query client (App.tsx) *)

\* (mutant) the refetchOnWindowFocus line is dropped: the flag's default, on
queryClientFocusDefault ==
    [ staleTime            |-> 1000 * 60 * 5,
      refetchOnWindowFocus |-> TRUE ]

queryClient ==
    [ staleTime            |-> 1000 * 60 * 5,
      refetchOnWindowFocus |-> FALSE ]

\* useQuery(options): the hook's own options over the client's defaults.
\* refetchInterval 0 stands for "not set"; enabled defaults to true.
useQuery(options) ==
    [ queryKey        |-> options.queryKey,
      staleTime       |-> IF "staleTime" \in DOMAIN options
                          THEN options.staleTime ELSE queryClient.staleTime,
      refetchInterval |-> IF "refetchInterval" \in DOMAIN options
                          THEN options.refetchInterval ELSE 0,
      enabled         |-> IF "enabled" \in DOMAIN options
                          THEN options.enabled ELSE TRUE,
      refetchOnWindowFocus |-> IF "refetchOnWindowFocus" \in DOMAIN options
                               THEN options.refetchOnWindowFocus
                               ELSE queryClient.refetchOnWindowFocus ]

----------------------------------------------------------------------------
(* Query hooks (useApi.ts) *)

\* (mutant) the enabled rule is dropped: every string counts as present
TruthyAlways(s) == TRUE

\* JavaScript's !!s for a string s
Truthy(s) == s # ""

\* (mutant) the sentiment index filed under the prices domain
useSentimentIndexUnderPrices ==
    useQuery([ queryKey  |-> <<Str("prices"), Str("index")>>,
               staleTime |-> 5 * 60 * 1000 ])

useSentimentIndex ==
    useQuery([ queryKey  |-> <<Str("sentiment"), Str("index")>>,
               staleTime |-> 5 * 60 * 1000 ])

useDocumentFeed(limit) ==
    useQuery([ queryKey        |-> <<Str("sentiment"), Str("documents"), Num(limit)>>,
               staleTime       |-> 1 * 60 * 1000,
               refetchInterval |-> 30 * 1000 ])

\* (mutant) the KPIs go stale after 20 seconds, before the next poll
usePriceKpisStaleBeforePoll ==
    useQuery([ queryKey        |-> <<Str("prices"), Str("kpis")>>,
               staleTime       |-> 20 * 1000,
               refetchInterval |-> 30 * 1000 ])

\* (mutant) the KPIs polled once a minute
usePriceKpisEveryMinute ==
    useQuery([ queryKey        |-> <<Str("prices"), Str("kpis")>>,
               staleTime       |-> 1 * 60 * 1000,
               refetchInterval |-> 60 * 1000 ])

usePriceKpis ==
    useQuery([ queryKey        |-> <<Str("prices"), Str("kpis")>>,
               staleTime       |-> 1 * 60 * 1000,
               refetchInterval |-> 30 * 1000 ])

useFeedstockPrices ==
    useQuery([ queryKey  |-> <<Str("prices"), Str("feedstock")>>,
               staleTime |-> 1 * 60 * 1000 ])

\* (mutant) the price history kept fresh for one minute only
usePriceHistoryOneMinute(feedstock, period) ==
    useQuery([ queryKey  |-> <<Str("prices"), Str("history"), Str(feedstock), Str(period)>>,
               staleTime |-> 1 * 60 * 1000,
               enabled   |-> feedstock # "" ])

usePriceHistory(feedstock, period) ==
    useQuery([ queryKey  |-> <<Str("prices"), Str("history"), Str(feedstock), Str(period)>>,
               staleTime |-> 5 * 60 * 1000,
               enabled   |-> Truthy(feedstock) ])

useOhlcData(commodity, period) ==
    useQuery([ queryKey  |-> <<Str("prices"), Str("ohlc"), Str(commodity), Str(period)>>,
               staleTime |-> 5 * 60 * 1000,
               enabled   |-> Truthy(commodity) ])

useForwardCurve(commodity) ==
    useQuery([ queryKey  |-> <<Str("prices"), Str("forward"), Str(commodity)>>,
               staleTime |-> 5 * 60 * 1000,
               enabled   |-> Truthy(commodity) ])

useRegionalHeatmap(commodity) ==
    useQuery([ queryKey  |-> <<Str("prices"), Str("heatmap"), Str(commodity)>>,
               staleTime |-> 5 * 60 * 1000,
               enabled   |-> Truthy(commodity) ])

useCarbonPrices ==
    useQuery([ queryKey  |-> <<Str("policy"), Str("carbon")>>,
               staleTime |-> 5 * 60 * 1000 ])

useSentimentHistory(days) ==
    useQuery([ queryKey  |-> <<Str("sentiment"), Str("history"), Num(days)>>,
               staleTime |-> 5 * 60 * 1000 ])

\* (mutant) the regional prices filed under the key of the feedstock prices
useRegionalPricesUnderFeedstock ==
    useQuery([ queryKey  |-> <<Str("prices"), Str("feedstock")>>,
               staleTime |-> 5 * 60 * 1000 ])

useRegionalPrices ==
    useQuery([ queryKey  |-> <<Str("prices"), Str("regional")>>,
               staleTime |-> 5 * 60 * 1000 ])

usePolicyKpis ==
    useQuery([ queryKey  |-> <<Str("policy"), Str("kpis")>>,
               staleTime |-> 5 * 60 * 1000 ])

usePolicyUpdates ==
    useQuery([ queryKey  |-> <<Str("policy"), Str("updates")>>,
               staleTime |-> 5 * 60 * 1000 ])

useSustainabilityMetrics ==
    useQuery([ queryKey  |-> <<Str("policy"), Str("sustainability")>>,
               staleTime |-> 10 * 60 * 1000 ])

usePolicyTimeline ==
    useQuery([ queryKey  |-> <<Str("policy"), Str("timeline")>>,
               staleTime |-> 10 * 60 * 1000 ])

usePolicyKanban ==
    useQuery([ queryKey  |-> <<Str("policy"), Str("kanban")>>,
               staleTime |-> 10 * 60 * 1000 ])

useMandateScenarios ==
    useQuery([ queryKey  |-> <<Str("policy"), Str("mandates")>>,
               staleTime |-> 10 * 60 * 1000 ])

useOfftakeMarket ==
    useQuery([ queryKey  |-> <<Str("policy"), Str("offtake")>>,
               staleTime |-> 10 * 60 * 1000 ])

useLenderScores ==
    useQuery([ queryKey  |-> <<Str("sentiment"), Str("lenders")>>,
               staleTime |-> 5 * 60 * 1000 ])

\* useMutation(options): the mutation function and the callback run after a
\* success, if the hook gives one
useMutation(options) ==
    [ mutationFn |-> options.mutationFn,
      onSuccess  |-> IF "onSuccess" \in DOMAIN options THEN options.onSuccess ELSE None ]

\* (mutant) the calculator invalidates the policy queries when it succeeds
useCarbonCalculatorInvalidating ==
    useMutation([ mutationFn |-> "policyApi.calculateCarbon",
                  onSuccess  |-> [invalidate |-> <<Str("policy")>>] ])

useCarbonCalculator ==
    useMutation([ mutationFn |-> "policyApi.calculateCarbon" ])

----------------------------------------------------------------------------
(* Fetch layer (api/client.ts) *)

\* response.ok: the status is in the range 200-299
ResponseOk(response) == response.status >= 200 /\ response.status <= 299

\* response.json(): the parsed body, or a SyntaxError when the body is not JSON
ResponseJson(response) ==
    IF "json" \in DOMAIN response.body
    THEN [returned |-> response.body.json]
    ELSE [thrown |-> [name |-> "SyntaxError"]]

\* (mutant) the response.ok test is missing: the body of an error response is
\* parsed and returned like a payload
fetchApiNoOkTest(settled) ==
    IF "rejected" \in DOMAIN settled
    THEN [thrown |-> [name |-> "TypeError"]]
    ELSE ResponseJson(settled.response)

\* (mutant) only statuses from 400 on are treated as errors
fetchApiOkBelow400(settled) ==
    IF "rejected" \in DOMAIN settled
    THEN [thrown |-> [name |-> "TypeError"]]
    ELSE IF settled.response.status >= 400
         THEN [thrown |-> [ name    |-> "Error",
                            message |-> <<"API Error:",
                                          ToString(settled.response.status),
                                          settled.response.statusText>> ]]
         ELSE ResponseJson(settled.response)

\* fetchApi once fetch() has settled.  `settled` is either
\* [rejected |-> TRUE] (no response: fetch() itself rejects with a TypeError)
\* or [response |-> [status, statusText, body]].
\* The result is [returned |-> payload] or [thrown |-> error].
fetchApi(settled) ==
    IF "rejected" \in DOMAIN settled
    THEN [thrown |-> [name |-> "TypeError"]]
    ELSE IF ~ResponseOk(settled.response)
         THEN [thrown |-> [ name    |-> "Error",
                            message |-> <<"API Error:",
                                          ToString(settled.response.status),
                                          settled.response.statusText>> ]]
         ELSE ResponseJson(settled.response)

\* JSON.stringify of the calculator's input
JSONstringify(input) ==
    "{\"annual_output_tonnes\":" \o ToString(input.annual_output_tonnes)
    \o ",\"emission_factor\":" \o ToString(input.emission_factor)
    \o ",\"carbon_price\":" \o ToString(input.carbon_price) \o "}"

\* policyApi.calculateCarbon(input): the request fetchApi is called with
calculateCarbon(input) ==
    [ endpoint |-> "/api/v1/policy/carbon-calculator",
      method   |-> "POST",
      body     |-> JSONstringify(input) ]

----------------------------------------------------------------------------
(* Query keys *)

\* One segment of a key as JSON text: a string in quotes, a number in digits
SerializeSeg(seg) ==
    IF "str" \in DOMAIN seg THEN "\"" \o seg.str \o "\"" ELSE ToString(seg.num)

RECURSIVE SerializeSegs(_)
SerializeSegs(key) ==
    IF key = <<>> THEN ""
    ELSE IF Len(key) = 1 THEN SerializeSeg(key[1])
    ELSE SerializeSeg(key[1]) \o "," \o SerializeSegs(Tail(key))

\* The serialized form of a QueryKey (an array of strings and numbers)
Serialize(key) == "[" \o SerializeSegs(key) \o "]"

\* Key equality is equality of the serialized forms
KeyEq(k1, k2) == Serialize(k1) = Serialize(k2)

\* key starts with prefix, segment by segment
StartsWith(key, prefix) ==
    /\ Len(prefix) <= Len(key)
    /\ \A i \in 1..Len(prefix) : SerializeSeg(key[i]) = SerializeSeg(prefix[i])

----------------------------------------------------------------------------
(* The hook calls the observers of the model may mount *)

Unmounted == [hook |-> "none"]

CallFeedstockPrices == [hook |-> "useFeedstockPrices", args |-> <<>>, opts |-> useFeedstockPrices]
CallPriceKpis == [hook |-> "usePriceKpis", args |-> <<>>, opts |-> usePriceKpis]
CallSentimentIndex == [hook |-> "useSentimentIndex", args |-> <<>>, opts |-> useSentimentIndex]
CallCarbonPrices == [hook |-> "useCarbonPrices", args |-> <<>>, opts |-> useCarbonPrices]
CallPriceHistory(feedstock, period) ==
    [hook |-> "usePriceHistory", args |-> <<feedstock, period>>,
     opts |-> usePriceHistory(feedstock, period)]

\* The policy page, on which the carbon calculator is
PolicyPool == {CallCarbonPrices}

\* The views of one run use the hook calls of one of these sets
Pools ==
    { {CallPriceKpis},
      {CallPriceHistory("uco", "1M"), CallPriceHistory("", "1M")},
      {CallFeedstockPrices, CallSentimentIndex},
      PolicyPool }

HookCalls == UNION Pools

Observers == 1..NumObservers

Hashes == { Serialize(c.opts.queryKey) : c \in HookCalls }

\* Prefixes invalidate is called with
Prefixes == { <<Str("prices")>>, <<Str("sentiment")>>, <<Str("prices"), Str("history")>> }

----------------------------------------------------------------------------
(* Query cache: entries *)

\* Eviction grace period
GraceMs == 5 * 60 * 1000

NoTimer == -1

\* Before the first mount, and the state a mount starts from: no chart has
\* been created, chartRef.current is null (0)
PageUnmounted ==
    [ mounted           |-> FALSE,
      selectedFeedstock |-> "uco",
      timeframe         |-> "1M",
      container         |-> FALSE,
      charts            |-> {},
      listeners         |-> {},
      chartRef          |-> 0,
      cleanup           |-> 0,
      created           |-> 0 ]

\* The mutation before its first submission
MutationIdle ==
    [ status |-> "idle", options |-> useCarbonCalculator, request |-> None,
      data |-> None, error |-> None ]

NewEntry(id, key) ==
    [ id            |-> id,
      key           |-> key,
      hash          |-> Serialize(key),
      status        |-> "idle",
      data          |-> None,
      error         |-> None,
      lastFetchedAt |-> 0,
      invalidated   |-> FALSE,
      refs          |-> 0,
      inflight      |-> 0,
      timerAt       |-> NoTimer,
      gcAt          |-> NoTimer ]

\* The entries of cache c stored under key: those with its serialized form
Find(c, key) == LET h == Serialize(key) IN { e \in c : e.hash = h }

FreshId(c) == CHOOSE i \in 1..(Cardinality(c) + 1) : \A e \in c : e.id # i

\* (mutant) keys compared by identity: the array a hook builds on each render
\* is never the one stored, so every call creates
getOrCreateByIdentity(c, key) == c \cup { NewEntry(FreshId(c), key) }

\* getOrCreate(key): the cache with an entry for key
getOrCreate(c, key) ==
    IF Find(c, key) # {} THEN c ELSE c \cup { NewEntry(FreshId(c), key) }

Entry(c, key) == CHOOSE e \in Find(c, key) : TRUE

Replace(c, old, new) == (c \ {old}) \cup {new}

\* An entry is stale if now - lastFetchedAt > staleTimeMs
IsStale(e, t, staleTimeMs) == t - e.lastFetchedAt > staleTimeMs

\* Whether an access must fetch: never fetched, marked stale, or stale by age
NeedsFetch(e, t, policy) ==
    \/ e.status = "idle"
    \/ e.invalidated
    \/ IsStale(e, t, policy.staleTime)

\* The entry with network call number id awaited in its in-flight slot
StartFetch(e, id) ==
    [e EXCEPT !.inflight = id,
              !.status = IF e.data = None THEN "loading" ELSE e.status]

----------------------------------------------------------------------------
(* Query cache: operations *)

\* The mounted observers of key
Subscribers(key) ==
    LET h == Serialize(key)
    IN  { o \in Observers : obs[o] # Unmounted /\ Serialize(obs[o].opts.queryKey) = h }

\* The policy the hooks attach to key
PolicyFor(key) ==
    LET h == Serialize(key)
    IN  (CHOOSE c \in HookCalls : Serialize(c.opts.queryKey) = h).opts

\* (mutant) no in-flight slot: every access that needs data starts a call
MayFetchNoDedup(e, policy) == policy.enabled

\* A fetch is started only for an enabled query whose in-flight slot is empty
MayFetch(e, policy) == policy.enabled /\ e.inflight = 0

\* subscribe(key, policy) on cache c at time t: registers one consumer,
\* stops the eviction timer, starts the interval timer of a polled query and
\* fetches at once if the entry is absent or stale.
\* The result is the new cache and whether a network call is issued.
Subscribe(c, t, policy, nextId) ==
    LET c1      == getOrCreate(c, policy.queryKey)
        e       == Entry(c1, policy.queryKey)
        fetch   == MayFetch(e, policy) /\ NeedsFetch(e, t, policy)
        e1      == [e EXCEPT !.refs = e.refs + 1,
                             !.gcAt = NoTimer,
                             !.timerAt = IF /\ policy.refetchInterval > 0
                                            /\ policy.enabled
                                            /\ e.timerAt = NoTimer
                                         THEN t + policy.refetchInterval
                                         ELSE e.timerAt]
        e2      == IF fetch THEN StartFetch(e1, nextId) ELSE e1
    IN  [cache |-> Replace(c1, e, e2), fetch |-> fetch]

\* (mutant) the interval timer is left running on the last unsubscribe
UnsubscribeKeepTimer(c, t, key) ==
    LET e  == CHOOSE x \in c : x.hash = Serialize(key)
        n  == e.refs - 1
        e1 == [e EXCEPT !.refs = n,
                        !.gcAt = IF n = 0 /\ e.inflight = 0 THEN t + 5 * 60 * 1000 ELSE -1]
    IN  (c \ {e}) \cup {e1}

\* (mutant) no grace period: the entry is due for eviction as soon as its
\* last subscriber leaves
UnsubscribeNoGrace(c, t, key) ==
    LET e  == CHOOSE x \in c : x.hash = Serialize(key)
        n  == e.refs - 1
        e1 == [e EXCEPT !.refs = n,
                        !.timerAt = IF n = 0 THEN -1 ELSE e.timerAt,
                        !.gcAt = IF n = 0 /\ e.inflight = 0 THEN t ELSE -1]
    IN  (c \ {e}) \cup {e1}

\* unsubscribe: decrements the reference count; at zero the interval timer is
\* cancelled and the eviction grace timer starts (once no fetch is awaited)
Unsubscribe(c, t, key) ==
    LET e  == Entry(c, key)
        n  == e.refs - 1
        e1 == [e EXCEPT !.refs = n,
                        !.timerAt = IF n = 0 THEN NoTimer ELSE e.timerAt,
                        !.gcAt = IF n = 0 /\ e.inflight = 0 THEN t + GraceMs ELSE NoTimer]
    IN  Replace(c, e, e1)

\* (mutant) last-resolved-wins: any resolution for the key is applied
AwaitsAnyCall(e, req) == e.hash = req.hash

\* A resolution is applied only to the entry that awaits this very call:
\* resolutions of superseded calls are ignored
Awaits(e, req) == e.hash = req.hash /\ e.inflight = req.id

\* The entry after the awaited call settled with `outcome` at time t
Settle(e, t, outcome) ==
    LET base == [e EXCEPT !.inflight = 0,
                          !.lastFetchedAt = t,
                          !.invalidated = FALSE,
                          !.gcAt = IF e.refs = 0 THEN t + GraceMs ELSE NoTimer]
    IN  IF "returned" \in DOMAIN outcome
        THEN [base EXCEPT !.status = "success", !.data = outcome.returned, !.error = None]
        ELSE [base EXCEPT !.status = "error", !.error = outcome.thrown, !.data = None]

\* invalidate(keyPrefix) on one entry: marked stale; a call still on the wire
\* was issued before the mark and is superseded
Invalidated(e, t, prefix) ==
    IF StartsWith(e.key, prefix)
    THEN [e EXCEPT !.invalidated = TRUE,
                   !.inflight = 0,
                   !.gcAt = IF e.refs = 0 /\ e.gcAt = NoTimer THEN t + GraceMs ELSE e.gcAt]
    ELSE e

\* What may come back for network call number id: no response at all, the
\* payload (which names the call it answers), or an HTTP error with a body
Settlements(id) ==
    { [rejected |-> TRUE],
      [response |-> [status |-> 200, statusText |-> "OK", body |-> [json |-> [fetch |-> id]]]],
      [response |-> [status |-> 404, statusText |-> "Not Found",
                     body |-> [json |-> [detail |-> "Not Found"]]]] }

\* The instants at which the cache's view of time changes: a timer falls due,
\* an entry is at the last instant of its freshness, or at the first instant
\* of its staleness
Instants(c) ==
    UNION { ( (IF e.timerAt # NoTimer THEN {e.timerAt} ELSE {})
              \cup (IF e.gcAt # NoTimer THEN {e.gcAt} ELSE {})
              \cup (IF e.status \in {"success", "error"}
                    THEN { e.lastFetchedAt + PolicyFor(e.key).staleTime,
                           e.lastFetchedAt + PolicyFor(e.key).staleTime + 1 }
                    ELSE {}) ) : e \in c }

Min(S) == CHOOSE x \in S : \A y \in S : x <= y

----------------------------------------------------------------------------
(* Actions *)

Init ==
    /\ now = 0
    /\ cache = {}
    /\ obs = [o \in Observers |-> Unmounted]
    /\ issued = [h \in Hashes |-> 0]
    /\ net = {}
    /\ ops = 0
    /\ pool \in Pools
    /\ polls = 0
    /\ mutation = MutationIdle
    /\ sentAt = [h \in Hashes |-> 0]
    /\ page = PageUnmounted
    /\ last = [op |-> "init"]

\* The network call a subscribe or interval step issues for key
Issue(key, fetch) ==
    LET h == Serialize(key)
    IN  /\ fetch => issued[h] < MaxFetches
        /\ issued' = IF fetch THEN [issued EXCEPT ![h] = issued[h] + 1] ELSE issued
        /\ net' = IF fetch THEN net \cup { [hash |-> h, id |-> issued[h] + 1] } ELSE net
        /\ sentAt' = IF fetch THEN [sentAt EXCEPT ![h] = now] ELSE sentAt

\* A view mounts: observer o subscribes with the options of a hook call
Mount(o, call) ==
    /\ obs[o] = Unmounted
    /\ \A p \in Observers : p < o => obs[p] # Unmounted
    /\ ops < MaxOps
    /\ ops' = ops + 1
    /\ LET h == Serialize(call.opts.queryKey)
           r == Subscribe(cache, now, call.opts, issued[h] + 1)
       IN  /\ Issue(call.opts.queryKey, r.fetch)
           /\ cache' = r.cache
           /\ last' = [op |-> "mount", hash |-> h, fetch |-> r.fetch]
    /\ obs' = [obs EXCEPT ![o] = call]
    /\ UNCHANGED <<now, polls, pool, mutation, page>>

\* A view unmounts: observer o unsubscribes
Unmount(o) ==
    /\ obs[o] # Unmounted
    /\ ops < MaxOps
    /\ ops' = ops + 1
    /\ cache' = Unsubscribe(cache, now, obs[o].opts.queryKey)
    /\ obs' = [obs EXCEPT ![o] = Unmounted]
    /\ last' = [op |-> "unmount", hash |-> Serialize(obs[o].opts.queryKey)]
    /\ UNCHANGED <<now, issued, net, polls, pool, mutation, sentAt, page>>

\* A mounted view renders again with other arguments for the same hook: the
\* observer leaves the old key and subscribes to the new one
Rerender(o, call) ==
    /\ obs[o] # Unmounted
    /\ obs[o].hook = call.hook
    /\ obs[o] # call
    /\ ops < MaxOps
    /\ ops' = ops + 1
    /\ LET h == Serialize(call.opts.queryKey)
           c1 == Unsubscribe(cache, now, obs[o].opts.queryKey)
           r == Subscribe(c1, now, call.opts, issued[h] + 1)
       IN  /\ Issue(call.opts.queryKey, r.fetch)
           /\ cache' = r.cache
           /\ last' = [op |-> "rerender", hash |-> h, fetch |-> r.fetch]
    /\ obs' = [obs EXCEPT ![o] = call]
    /\ UNCHANGED <<now, polls, pool, mutation, page>>

\* A network call settles; the hook's queryFn is fetchApi on the endpoint
Resolve(req, settled) ==
    /\ req \in net
    /\ net' = net \ {req}
    /\ LET outcome == fetchApi(settled)
           awaiting == { e \in cache : Awaits(e, req) }
       IN  /\ cache' = (cache \ awaiting) \cup { Settle(e, now, outcome) : e \in awaiting }
           /\ last' = [op |-> "resolve", hash |-> req.hash, id |-> req.id,
                       applied |-> awaiting # {}, settled |-> settled]
    /\ sentAt' = IF \E other \in net \ {req} : other.hash = req.hash THEN sentAt
                 ELSE [sentAt EXCEPT ![req.hash] = 0]
    /\ UNCHANGED <<now, obs, issued, ops, polls, pool, mutation, page>>

\* The interval timer of a polled entry is due: fetch regardless of staleness
\* (unless a call is already awaited) and schedule the next one
IntervalFire(e) ==
    /\ e \in cache
    /\ e.timerAt # NoTimer
    /\ e.timerAt <= now
    /\ polls < MaxPolls
    /\ polls' = polls + 1
    /\ LET policy == PolicyFor(e.key)
           fetch == MayFetch(e, policy)
           h == e.hash
           e1 == [e EXCEPT !.timerAt = now + policy.refetchInterval]
           e2 == IF fetch THEN StartFetch(e1, issued[h] + 1) ELSE e1
       IN  /\ Issue(e.key, fetch)
           /\ cache' = Replace(cache, e, e2)
           /\ last' = [op |-> "interval", hash |-> h, fetch |-> fetch]
    /\ UNCHANGED <<now, obs, ops, pool, mutation, page>>

\* The inputs the calculator is submitted with
CalculatorInputs ==
    { [annual_output_tonnes |-> 1000, emission_factor |-> 2, carbon_price |-> 35],
      [annual_output_tonnes |-> 0, emission_factor |-> 0, carbon_price |-> 0] }

\* What may come back for a calculator submission
MutationSettlements(m) ==
    IF m.status # "pending" THEN {}
    ELSE { [rejected |-> TRUE],
           [response |-> [status |-> 200, statusText |-> "OK",
                          body |-> [json |-> [calculated |-> m.request.body]]]],
           [response |-> [status |-> 500, statusText |-> "Internal Server Error",
                          body |-> [text |-> "<html>"]]] }

\* mutate(input) on the calculator: the mutation function sends the request
Mutate(input) ==
    /\ pool = PolicyPool
    /\ mutation.status # "pending"
    /\ ops < MaxOps
    /\ ops' = ops + 1
    /\ mutation' = [ status |-> "pending", options |-> useCarbonCalculator,
                     request |-> calculateCarbon(input), data |-> None, error |-> None ]
    /\ last' = [op |-> "mutate", request |-> calculateCarbon(input)]
    /\ UNCHANGED <<now, cache, obs, issued, net, polls, pool, sentAt, page>>

\* The calculator's request settles: the outcome of fetchApi goes to the
\* caller, and the hook's onSuccess callback runs if it has one
MutationSettles(settled) ==
    /\ mutation.status = "pending"
    /\ LET outcome == fetchApi(settled)
           ok == "returned" \in DOMAIN outcome
           onSuccess == mutation.options.onSuccess
       IN  /\ mutation' = [ mutation EXCEPT
                               !.status = IF ok THEN "success" ELSE "error",
                               !.data   = IF ok THEN outcome.returned ELSE None,
                               !.error  = IF ok THEN None ELSE outcome.thrown ]
           /\ cache' = IF ok /\ onSuccess # None
                       THEN { Invalidated(e, now, onSuccess.invalidate) : e \in cache }
                       ELSE cache
           /\ last' = [op |-> "mutationSettled", settled |-> settled, outcome |-> outcome]
    /\ UNCHANGED <<now, obs, issued, net, ops, polls, pool, sentAt, page>>

\* invalidate(keyPrefix)
Invalidate(prefix) ==
    /\ \E e \in cache : StartsWith(e.key, prefix) /\ ~e.invalidated
    /\ ops < MaxOps
    /\ ops' = ops + 1
    /\ cache' = { Invalidated(e, now, prefix) : e \in cache }
    /\ last' = [op |-> "invalidate", prefix |-> prefix]
    /\ UNCHANGED <<now, obs, issued, net, polls, pool, mutation, sentAt, page>>

\* The eviction grace timer of an entry without subscribers is due
Evict(e) ==
    /\ e \in cache
    /\ e.gcAt # NoTimer
    /\ e.gcAt <= now
    /\ e.refs = 0
    /\ cache' = cache \ {e}
    /\ last' = [op |-> "evict", hash |-> e.hash]
    /\ UNCHANGED <<now, obs, issued, net, ops, polls, pool, mutation, sentAt, page>>

\* The entries a window/tab refocus refetches: those of subscribed, enabled
\* queries with the focus flag set that are stale and not already awaited
FocusRefetches(c, t) ==
    { e \in c : /\ e.refs > 0
                /\ PolicyFor(e.key).refetchOnWindowFocus
                /\ MayFetch(e, PolicyFor(e.key))
                /\ NeedsFetch(e, t, PolicyFor(e.key)) }

\* The window or tab regains focus while some view is mounted
WindowFocus ==
    /\ \E e \in cache : e.refs > 0
    /\ ops < MaxOps
    /\ ops' = ops + 1
    /\ LET R == FocusRefetches(cache, now)
       IN  /\ \A e \in R : issued[e.hash] < MaxFetches
           /\ issued' = [ h \in Hashes |->
                            IF \E e \in R : e.hash = h THEN issued[h] + 1 ELSE issued[h] ]
           /\ net' = net \cup { [hash |-> e.hash, id |-> issued[e.hash] + 1] : e \in R }
           /\ sentAt' = [ h \in Hashes |->
                            IF \E e \in R : e.hash = h THEN now ELSE sentAt[h] ]
           /\ cache' = (cache \ R) \cup { StartFetch(e, issued[e.hash] + 1) : e \in R }
           /\ last' = [op |-> "focus", fetched |-> { e.hash : e \in R }]
    /\ UNCHANGED <<now, obs, polls, pool, mutation, page>>

\* Time passes, up to the next instant; timers that are due fire first
Tick ==
    /\ \A e \in cache : /\ e.timerAt # NoTimer => e.timerAt > now
                        /\ e.gcAt # NoTimer => e.gcAt > now
    /\ \E t \in Instants(cache) : t > now
    /\ now' = Min({ t \in Instants(cache) : t > now })
    /\ last' = [op |-> "tick"]
    /\ UNCHANGED <<cache, obs, issued, net, ops, polls, pool, mutation, sentAt, page>>

Next ==
    \/ \E o \in Observers, call \in pool : Mount(o, call)
    \/ \E o \in Observers : Unmount(o)
    \/ \E o \in Observers, call \in pool : Rerender(o, call)
    \/ \E req \in net : \E settled \in Settlements(req.id) : Resolve(req, settled)
    \/ \E e \in cache : IntervalFire(e)
    \/ \E prefix \in Prefixes : Invalidate(prefix)
    \/ \E e \in cache : Evict(e)
    \/ WindowFocus
    \/ \E input \in CalculatorInputs : Mutate(input)
    \/ \E settled \in MutationSettlements(mutation) : MutationSettles(settled)
    \/ Tick

Spec == Init /\ [][Next]_vars

----------------------------------------------------------------------------
(* Polling with a responsive server: the KPI view stays mounted and every   *)
(* network call is answered with a payload within one refetch interval      *)

InitPolling ==
    /\ Init
    /\ pool = {CallPriceKpis}

\* The time by which the call on the wire for hash h must be answered
AnswerBy(h) ==
    sentAt[h] + (CHOOSE c \in HookCalls : Serialize(c.opts.queryKey) = h).opts.refetchInterval

\* The server answers a call with the payload, in time
ResolveInTime(req) ==
    /\ now <= AnswerBy(req.hash)
    /\ Resolve(req, [response |-> [status |-> 200, statusText |-> "OK",
                                    body |-> [json |-> [fetch |-> req.id]]]])

\* Time passes, but not beyond the time by which a call must be answered
TickInTime ==
    /\ Tick
    /\ \A req \in net : now' <= AnswerBy(req.hash)

\* A view unmounts while another view stays subscribed to the same key
UnmountButOne(o) ==
    /\ Unmount(o)
    /\ \E p \in Observers \ {o} : obs[p] = obs[o]

PollingNext ==
    \/ \E o \in Observers, call \in pool : Mount(o, call)
    \/ \E o \in Observers : UnmountButOne(o)
    \/ WindowFocus
    \/ \E req \in net : ResolveInTime(req)
    \/ \E e \in cache : IntervalFire(e)
    \/ TickInTime

SpecPolling == InitPolling /\ [][PollingNext]_vars

----------------------------------------------------------------------------
(* The fetch layer on its own: fetchApi applied to whatever fetch() may     *)
(* settle with                                                              *)

\* Statuses of the responses fetch() resolves with
HttpStatuses == 200..599

StatusText(status) ==
    IF status = 200 THEN "OK"
    ELSE IF status = 404 THEN "Not Found"
    ELSE IF status >= 500 THEN "Internal Server Error"
    ELSE ""

Bodies ==
    { [json |-> [fetch |-> 1]],
      [text |-> "<html>"],
      [empty |-> TRUE] }

AllSettlements ==
    { [rejected |-> TRUE] }
    \cup { [response |-> [status |-> st, statusText |-> StatusText(st), body |-> b]] :
             st \in HttpStatuses, b \in Bodies }

\* A caller awaits fetchApi(endpoint) and fetch() settles
CallFetchApi(settled) ==
    /\ last' = [op |-> "fetchApi", settled |-> settled, outcome |-> fetchApi(settled)]
    /\ UNCHANGED <<now, cache, obs, issued, net, ops, polls, pool, mutation, sentAt, page>>

FetchNext == \E settled \in AllSettlements : CallFetchApi(settled)

SpecFetch == Init /\ [][FetchNext]_vars

----------------------------------------------------------------------------
(* Formatting helpers (lib/utils) on integers *)

\* Three digits of a thousands group
Pad3(n) ==
    IF n < 10 THEN "00" \o ToString(n)
    ELSE IF n < 100 THEN "0" \o ToString(n)
    ELSE ToString(n)

RECURSIVE GroupThousands(_)
\* en-AU grouping of a non-negative integer: 125000 is "125,000"
GroupThousands(n) ==
    IF n < 1000 THEN ToString(n)
    ELSE GroupThousands(n \div 1000) \o "," \o Pad3(n % 1000)

\* formatNumber(value) for an integer value
formatNumber(value) ==
    IF value < 0 THEN "-" \o GroupThousands(-value) ELSE GroupThousands(value)

\* formatCurrency(value) for an integer value, currency AUD in en-AU: no
\* fraction digits
formatCurrency(value) ==
    IF value < 0 THEN "-$" \o GroupThousands(-value) ELSE "$" \o GroupThousands(value)

\* formatPercent(value) for an integer value: sign, value.toFixed(1), "%"
formatPercent(value) ==
    (IF value >= 0 THEN "+" ELSE "") \o ToString(value) \o ".0%"

----------------------------------------------------------------------------
(* What a query hook hands to the view that calls it *)

\* The result object of useQuery for an entry: data is undefined (None) when
\* the entry holds none; isLoading while the first fetch is awaited
QueryResult(e) ==
    [ status    |-> e.status,
      data      |-> e.data,
      error     |-> e.error,
      isLoading |-> e.status = "loading",
      isError   |-> e.status = "error" ]

\* The entry states a view can be rendered with, for the payloads in datas
EntryStates(datas) ==
    { [status |-> "loading", data |-> None, error |-> None] }
    \cup { [status |-> "error", data |-> None,
            error |-> [name |-> "Error",
                       message |-> <<"API Error:", "500", "Internal Server Error">>]] }
    \cup { [status |-> "success", data |-> d, error |-> None] : d \in datas }

QueryResults(datas) == { QueryResult(e) : e \in EntryStates(datas) }

----------------------------------------------------------------------------
(* KpiCard (components/ui/KpiCard) *)

\* (mutant) the sign of delta decides the trend whenever delta is given; the
\* trend prop counts only without a delta
KpiCardTrendFromDelta(props) ==
    LET delta == props.delta
        determinedTrend ==
            IF delta # None /\ delta.num # 0
            THEN (IF delta.num > 0 THEN "up" ELSE "down")
            ELSE IF props.trend # None THEN props.trend.str ELSE "flat"
    IN  IF props.loading
        THEN [ kind |-> "skeleton", blocks |-> 3 ]
        ELSE [ kind  |-> "card",
               label |-> props.label,
               value |-> props.prefix \o formatNumber(props.value.num) \o props.suffix,
               delta |-> IF delta # None
                         THEN [ class |-> IF determinedTrend = "up" THEN "number-positive"
                                          ELSE IF determinedTrend = "down" THEN "number-negative"
                                          ELSE "number-neutral",
                                icon  |-> IF determinedTrend = "up" THEN "TrendingUp"
                                          ELSE IF determinedTrend = "down" THEN "TrendingDown"
                                          ELSE "Minus",
                                text  |-> formatPercent(delta.num),
                                label |-> props.deltaLabel ]
                         ELSE None ]

\* KpiCard(props): props.delta and props.trend are None when not given;
\* value is a number. The result is what is put on screen.
KpiCard(props) ==
    LET displayValue == formatNumber(props.value.num)
        delta == props.delta
        determinedTrend ==
            IF props.trend # None THEN props.trend.str
            ELSE IF delta # None /\ delta.num # 0
                 THEN (IF delta.num > 0 THEN "up" ELSE "down")
                 ELSE "flat"
    IN  IF props.loading
        THEN [ kind |-> "skeleton", blocks |-> 3 ]
        ELSE [ kind  |-> "card",
               label |-> props.label,
               value |-> props.prefix \o displayValue \o props.suffix,
               delta |-> IF delta # None
                         THEN [ class |-> IF determinedTrend = "up" THEN "number-positive"
                                          ELSE IF determinedTrend = "down" THEN "number-negative"
                                          ELSE "number-neutral",
                                icon  |-> IF determinedTrend = "up" THEN "TrendingUp"
                                          ELSE IF determinedTrend = "down" THEN "TrendingDown"
                                          ELSE "Minus",
                                text  |-> formatPercent(delta.num),
                                label |-> props.deltaLabel ]
                         ELSE None ]

----------------------------------------------------------------------------
(* JavaScript numbers: integers, their quotients, NaN and the infinities *)

NaN == [nan |-> TRUE]
Infinity(sign) == [inf |-> sign]

\* a / b for integers a and b (b = 0 gives NaN or an infinity, as in IEEE 754);
\* a quotient is kept as numerator over a positive denominator
Divide(a, b) ==
    IF b = 0
    THEN (IF a = 0 THEN NaN ELSE IF a > 0 THEN Infinity(1) ELSE Infinity(-1))
    ELSE IF b > 0 THEN [num |-> a, den |-> b]
    ELSE [num |-> -a, den |-> -b]

\* x * k for a number x and an integer k > 0
Times(x, k) ==
    IF "den" \in DOMAIN x THEN [num |-> x.num * k, den |-> x.den] ELSE x

\* Math.max(...values) of a sequence of integers; -Infinity when it is empty
MathMax(values) ==
    IF Len(values) = 0 THEN Infinity(-1)
    ELSE Num(CHOOSE m \in { values[i] : i \in 1..Len(values) } :
                \A i \in 1..Len(values) : values[i] <= m)

\* Math.min(...values); Infinity when the sequence is empty
MathMin(values) ==
    IF Len(values) = 0 THEN Infinity(1)
    ELSE Num(CHOOSE m \in { values[i] : i \in 1..Len(values) } :
                \A i \in 1..Len(values) : m <= values[i])

----------------------------------------------------------------------------
(* Chart components *)

\* BarList({ data }): one bar per item, its CSS width (item.value / maxValue) * 100
\* in percent. data is a sequence of [name, value] with integer values.
BarList(data) ==
    LET maxValue == MathMax([ i \in 1..Len(data) |-> data[i].value ])
    IN  [ i \in 1..Len(data) |->
            [ name  |-> data[i].name,
              width |-> Times(Divide(data[i].value, maxValue.num), 100) ] ]

blocks == << "U+2581", "U+2582", "U+2583", "U+2584", "U+2585", "U+2586", "U+2587", "U+2588" >>

\* (mutant) the glyph index is scaled by the number of glyphs, not by one less
TextSparklineScaledByLength(data) ==
    IF Len(data) = 0
    THEN [ colorClass |-> "number-neutral", index |-> << >> ]
    ELSE LET min == MathMin(data).num
             max == MathMax(data).num
             range == IF max - min # 0 THEN max - min ELSE 1
         IN  [ colorClass |-> "number-neutral",
               index      |-> [ i \in 1..Len(data) |->
                                  ((data[i] - min) * Len(blocks)) \div range ] ]

\* TextSparkline({ data }) for a sequence of integers: the glyph index of each
\* value, Math.floor(((value - min) / range) * (blocks.length - 1)), and the
\* colour class of the trend. The glyph drawn is blocks[index] (0-based).
TextSparkline(data) ==
    IF Len(data) = 0
    THEN [ colorClass |-> "number-neutral", index |-> << >> ]
    ELSE LET min == MathMin(data).num
             max == MathMax(data).num
             range == IF max - min # 0 THEN max - min ELSE 1
             trend == data[Len(data)] - data[1]
         IN  [ colorClass |-> IF trend > 0 THEN "number-positive"
                              ELSE IF trend < 0 THEN "number-negative"
                              ELSE "number-neutral",
               index      |-> [ i \in 1..Len(data) |->
                                  ((data[i] - min) * (Len(blocks) - 1)) \div range ] ]

----------------------------------------------------------------------------
(* Math.random() *)

\* The draws of one render: each seed stands for one sequence of outcomes of
\* Math.random(), an outcome being a number of tenths in 0..9
Seeds == {1, 2, 3}

\* The k-th draw (k = 0, 1, ...) of the sequence, in tenths
MathRandom(seed, k) == ((seed + k) * seed * 3) % 10

----------------------------------------------------------------------------
(* Candlestick chart (PricesDashboard chart effect) *)

\* Options of chart.addSeries(CandlestickSeries, ...)
candlestickSeries ==
    [ upColor   |-> "#10b981", downColor   |-> "#ef4444",
      borderUpColor |-> "#10b981", borderDownColor |-> "#ef4444",
      wickUpColor   |-> "#10b981", wickDownColor   |-> "#ef4444" ]

\* The colour the candlestick series draws a bar with: the up colour for
\* close >= open, the down colour otherwise
CandleColor(d) ==
    IF d.close >= d.open THEN candlestickSeries.upColor ELSE candlestickSeries.downColor

\* (mutant) a flat candle counted as bearish
volumeDataStrictlyUp(mockData, seed) ==
    [ i \in 1..Len(mockData) |->
        [ time  |-> mockData[i].time,
          value |-> (MathRandom(seed, i - 1) * 1000000) \div 10,
          color |-> IF mockData[i].close > mockData[i].open
                    THEN "#10b98133" ELSE "#ef444433" ] ]

\* volumeData: one histogram bar per candle, of a random height, coloured by
\* the candle's direction
volumeData(mockData, seed) ==
    [ i \in 1..Len(mockData) |->
        [ time  |-> mockData[i].time,
          value |-> (MathRandom(seed, i - 1) * 1000000) \div 10,
          color |-> IF mockData[i].close >= mockData[i].open
                    THEN "#10b98133" ELSE "#ef444433" ] ]

\* What the chart effect puts on the chart for the candles mockData
ChartEffect(mockData, seed) ==
    [ candles |-> [ i \in 1..Len(mockData) |->
                      [ time  |-> mockData[i].time,
                        color |-> CandleColor(mockData[i]) ] ],
      volume  |-> volumeData(mockData, seed) ]

----------------------------------------------------------------------------
(* Views: the parts of the pages fed by one query *)

\* SentimentDashboard, KPI cards: index is the result of useSentimentIndex()
SentimentKpis(index) ==
    LET d == index.data
    IN  << KpiCard([ label      |-> "Overall Index",
                     value      |-> IF d # None THEN d.overall_index ELSE Num(0),
                     prefix     |-> IF d # None /\ d.overall_index.num # 0
                                       /\ d.overall_index.num > 0
                                    THEN "+" ELSE "",
                     suffix     |-> "",
                     delta      |-> IF d # None THEN d.weekly_change ELSE None,
                     deltaLabel |-> "vs last week",
                     trend      |-> None,
                     loading    |-> index.isLoading ]),
           KpiCard([ label      |-> "Bullish Signals",
                     value      |-> IF d # None THEN d.bullish_count ELSE Num(0),
                     prefix     |-> "",
                     suffix     |-> "",
                     delta      |-> Num(12),
                     deltaLabel |-> "",
                     trend      |-> Str("up"),
                     loading    |-> index.isLoading ]),
           KpiCard([ label      |-> "Bearish Signals",
                     value      |-> IF d # None THEN d.bearish_count ELSE Num(0),
                     prefix     |-> "",
                     suffix     |-> "",
                     delta      |-> Num(-5),
                     deltaLabel |-> "",
                     trend      |-> Str("down"),
                     loading    |-> index.isLoading ]),
           KpiCard([ label      |-> "Documents Analyzed",
                     value      |-> IF d # None THEN d.documents_analyzed ELSE Num(0),
                     prefix     |-> "",
                     suffix     |-> "",
                     delta      |-> Num(23),
                     deltaLabel |-> "this month",
                     trend      |-> None,
                     loading    |-> index.isLoading ]) >>

\* (mutant) a fifth option, "all feedstocks", with an empty id
FEEDSTOCK_OPTIONS_WithAll ==
    << [id |-> "uco", name |-> "Used Cooking Oil"],
       [id |-> "tallow", name |-> "Tallow"],
       [id |-> "canola", name |-> "Canola Oil"],
       [id |-> "palm", name |-> "Palm Oil"],
       [id |-> "", name |-> "All Feedstocks"] >>

FEEDSTOCK_OPTIONS ==
    << [id |-> "uco", name |-> "Used Cooking Oil"],
       [id |-> "tallow", name |-> "Tallow"],
       [id |-> "canola", name |-> "Canola Oil"],
       [id |-> "palm", name |-> "Palm Oil"] >>

\* String.prototype.toLowerCase on the feedstock names the API serves
toLowerCase(s) ==
    IF s = "UCO" THEN "uco"
    ELSE IF s = "Tallow" THEN "tallow"
    ELSE IF s = "Canola" THEN "canola"
    ELSE IF s = "Palm" THEN "palm"
    ELSE s

\* prices?.find((p) => p.feedstock.toLowerCase() === id): the first match,
\* None when prices is undefined or holds no match
FindFeedstock(prices, id) ==
    IF prices = None THEN None
    ELSE LET hits == { i \in 1..Len(prices.list) : toLowerCase(prices.list[i].feedstock) = id }
         IN  IF hits = {} THEN None
             ELSE prices.list[CHOOSE i \in hits : \A j \in hits : i <= j]

\* PricesDashboard, KPI cards: prices is the result of useFeedstockPrices()
PricesKpis(prices) ==
    [ i \in 1..Len(FEEDSTOCK_OPTIONS) |->
        LET feedstock == FEEDSTOCK_OPTIONS[i]
            data == FindFeedstock(prices.data, feedstock.id)
        IN  KpiCard([ label      |-> feedstock.name,
                      value      |-> IF data # None THEN data.spot_price ELSE Num(0),
                      prefix     |-> "$",
                      suffix     |-> IF feedstock.id = "uco" THEN "/L" ELSE "/MT",
                      delta      |-> IF data # None THEN data.change_7d ELSE None,
                      deltaLabel |-> "7d",
                      trend      |-> None,
                      loading    |-> prices.isLoading ]) ]

\* PolicyDashboard, sustainability metrics: metrics is the result of
\* useSustainabilityMetrics(); its isLoading is not consulted
SustainabilityMetrics(metrics) ==
    LET d == metrics.data
    IN  << [ kind  |-> "metric",
             value |-> formatNumber(IF d # None THEN d.totalEmissionsAvoided.num ELSE 125000),
             label |-> "tCO2e Avoided (YTD)" ],
           [ kind  |-> "metric",
             value |-> formatNumber(IF d # None THEN d.projectsFinanced.num ELSE 47),
             label |-> "Projects Financed" ],
           [ kind  |-> "metric",
             value |-> formatNumber(IF d # None THEN d.creditsIssued.num ELSE 89000),
             label |-> "Credits Issued" ] >>

\* SentimentDashboard, fear components: the items handed to BarList
fearData(index) ==
    LET d == index.data
    IN  IF d # None /\ d.fear_components # None
        THEN << [name |-> "Regulatory Risk",   value |-> d.fear_components.regulatory_risk],
                [name |-> "Technology Risk",   value |-> d.fear_components.technology_risk],
                [name |-> "Feedstock Risk",    value |-> d.fear_components.feedstock_risk],
                [name |-> "Counterparty Risk", value |-> d.fear_components.counterparty_risk],
                [name |-> "Market Risk",       value |-> d.fear_components.market_risk],
                [name |-> "ESG Concerns",      value |-> d.fear_components.esg_concerns] >>
        ELSE << >>

\* SentimentDashboard, mock trend data of the area chart: twelve months, three
\* random series
trendData(seed) ==
    [ i \in 0..11 |->
        [ month   |-> <<2025, i, 1>>,
          bullish |-> 50 + 3 * MathRandom(seed, 3 * i),
          bearish |-> 30 + 2 * MathRandom(seed, 3 * i + 1),
          net     |-> 20 + 4 * MathRandom(seed, 3 * i + 2) - 20 ] ]

\* SentimentDashboard, latest documents: documents is the result of
\* useDocumentFeed(10)
SentimentDocuments(documents) ==
    IF documents.isLoading
    THEN [ kind |-> "skeleton", blocks |-> 3 ]
    ELSE [ kind |-> "rows",
           rows |-> IF documents.data = None THEN << >>
                    ELSE [ i \in 1..Len(documents.data.list) |->
                             LET doc == documents.data.list[i]
                             IN  [ key   |-> doc.id,
                                   dot   |-> IF doc.sentiment = "BULLISH" THEN "bg-bullish"
                                             ELSE IF doc.sentiment = "BEARISH" THEN "bg-bearish"
                                             ELSE "bg-neutral",
                                   title |-> doc.title,
                                   class |-> IF doc.sentiment_score > 0
                                             THEN "number-positive" ELSE "number-negative",
                                   score |-> (IF doc.sentiment_score > 0 THEN "+" ELSE "")
                                             \o ToString(doc.sentiment_score) \o ".00" ] ] ]

\* SentimentDashboard, lender comparison: lenders is the result of
\* useLenderScores()
SentimentLenders(lenders) ==
    IF lenders.isLoading
    THEN [ kind |-> "skeleton", blocks |-> 5 ]
    ELSE [ kind |-> "rows",
           rows |-> IF lenders.data = None THEN << >>
                    ELSE [ i \in 1..Len(lenders.data.list) |->
                             LET lender == lenders.data.list[i]
                             IN  [ key       |-> lender.lender,
                                   class     |-> IF lender.sentiment > 0
                                                 THEN "number-positive" ELSE "number-negative",
                                   sentiment |-> (IF lender.sentiment > 0 THEN "+" ELSE "")
                                                 \o ToString(lender.sentiment),
                                   trend     |-> TextSparkline(lender.trend) ] ] ]

\* SentimentDashboard(): what the page shows for the results of its three
\* queries and the draws of this render
SentimentDashboard(index, lenders, documents, seed) ==
    [ kpis      |-> SentimentKpis(index),
      trend     |-> trendData(seed),
      fear      |-> BarList(fearData(index)),
      documents |-> SentimentDocuments(documents),
      lenders   |-> SentimentLenders(lenders) ]

----------------------------------------------------------------------------
(* generateMockOHLCData (PricesDashboard) *)

\* The base price of a feedstock, in cents
basePrice(feedstock) ==
    IF feedstock = "uco" THEN 120
    ELSE IF feedstock = "tallow" THEN 85000
    ELSE IF feedstock = "canola" THEN 110000
    ELSE 90000

\* The number of days of a timeframe
days(timeframe) ==
    IF timeframe = "1D" THEN 24
    ELSE IF timeframe = "1W" THEN 7
    ELSE IF timeframe = "1M" THEN 30
    ELSE IF timeframe = "3M" THEN 90
    ELSE 365

\* Hours the local time of a clock's zone is ahead of UTC on a local day;
\* clock.dstStart is the local day on which daylight saving time starts in the
\* zones that have it
UtcOffsetHours(clock, day) ==
    IF clock.zone = "Australia/Sydney" THEN (IF day >= clock.dstStart THEN 11 ELSE 10)
    ELSE IF clock.zone = "Australia/Brisbane" THEN 10
    ELSE 0

\* date.toISOString().split('T')[0] for a local day of the clock, at the
\* clock's local hour: the UTC calendar day, as a day number
toISODate(clock, day) == (day * 24 + clock.hour - UtcOffsetHours(clock, day)) \div 24

\* Prices are kept as integers: one ten-thousandth of the base price is
\* basePrice(feedstock) units, so the base price is 10000 * basePrice and
\* volatility (basePrice * 0.02) is 200 * basePrice; a draw r of
\* Math.random() is r tenths.
\* The candles of iterations lo..hi of the loop (iteration n is i = days - n),
\* currentPrice being price when iteration lo starts and the draws taken
\* from sequence seed. The iterations are computed half by half.
RECURSIVE OHLCLoop(_, _, _, _, _, _, _)
OHLCLoop(feedstock, timeframe, clock, seed, lo, hi, price) ==
    IF lo = hi
    THEN LET i == days(timeframe) - lo
             day == clock.day - i
             tenth == 20 * basePrice(feedstock)
             open == price
             close == open + (MathRandom(seed, 3 * lo) - 5) * tenth
             high == (IF open >= close THEN open ELSE close)
                     + (MathRandom(seed, 3 * lo + 1) * tenth) \div 2
             low == (IF open <= close THEN open ELSE close)
                    - (MathRandom(seed, 3 * lo + 2) * tenth) \div 2
         IN  << [ time  |-> toISODate(clock, day),
                  open  |-> open,
                  high  |-> high,
                  low   |-> low,
                  close |-> close ] >>
    ELSE LET mid == (lo + hi) \div 2
             first == OHLCLoop(feedstock, timeframe, clock, seed, lo, mid, price)
         IN  first \o OHLCLoop(feedstock, timeframe, clock, seed, mid + 1, hi,
                               first[Len(first)].close)

\* generateMockOHLCData(feedstock, timeframe), called at local time clock
\* with the draws of sequence seed
generateMockOHLCData(feedstock, timeframe, clock, seed) ==
    OHLCLoop(feedstock, timeframe, clock, seed, 0, days(timeframe),
             10000 * basePrice(feedstock))

----------------------------------------------------------------------------
(* The carbon revenue calculator (PolicyDashboard) *)

\* Amounts are exact. The slider moves annualProduction in steps of 5000
\* litres, a carbon price is a number of tenths of a dollar, and an unrounded
\* amount (credits, dollars, per cent) is a number of two-hundredths.

\* The price of the first element of a list whose market is market, or
\* otherwise when there is none
RECURSIVE firstPrice(_, _, _)
firstPrice(list, market, otherwise) ==
    IF list = << >> THEN otherwise
    ELSE IF Head(list).market = market THEN Head(list).price
    ELSE firstPrice(Tail(list), market, otherwise)

\* carbonPrices?.find((p) => p.market === market)?.price ?? otherwise
\* (carbonPrices is None while the query has no data)
findPrice(carbonPrices, market, otherwise) ==
    IF carbonPrices = None THEN otherwise
    ELSE firstPrice(carbonPrices.list, market, otherwise)

\* Math.round of a non-negative number of two-hundredths: halves go up
MathRound(x) == (x + 100) \div 200

\* calculateRevenue() for the calculator state and the carbon prices held
calculateRevenue(calculator, carbonPrices) ==
    LET steps == calculator.annualProduction \div 5000
        ciReduction ==
            IF calculator.feedstockType = "uco" THEN 85
            ELSE IF calculator.feedstockType = "tallow" THEN 75
            ELSE IF calculator.feedstockType = "canola" THEN 65
            ELSE 55
        \* certMultiplier in twentieths: 1.15 or 1.0
        certMultiplier == IF calculator.certificationScheme = "iscc" THEN 23 ELSE 20
        euPrice == findPrice(carbonPrices, "EU", 800)
        accuPrice == findPrice(carbonPrices, "ACCU", 350)
        \* (annualProduction * ciReduction * certMultiplier) / 1000
        \*    = steps * ciReduction * certMultiplier / 4
        quarters == steps * ciReduction * certMultiplier
        totalCredits == 50 * quarters
        \* totalCredits * euPrice * 0.6 and totalCredits * accuPrice * 0.4
        euRevenue == quarters * euPrice * 3
        accuRevenue == quarters * accuPrice * 2
    IN  [ totalCredits |-> MathRound(totalCredits),
          euRevenue    |-> MathRound(euRevenue),
          accuRevenue  |-> MathRound(accuRevenue),
          totalRevenue |-> MathRound(euRevenue + accuRevenue),
          ciScore      |-> MathRound(10 * ciReduction * certMultiplier) ]

\* PolicyDashboard, the Projected Revenue card: what it shows for the
\* calculator state and the carbon prices held
ProjectedRevenue(calculator, carbonPrices) ==
    LET revenue == calculateRevenue(calculator, carbonPrices)
    IN  [ revenue      |-> revenue,
          ciScore      |-> ToString(revenue.ciScore) \o "%",
          totalCredits |-> formatNumber(revenue.totalCredits) \o " tCO2e",
          euRevenue    |-> formatCurrency(revenue.euRevenue),
          accuRevenue  |-> formatCurrency(revenue.accuRevenue),
          totalRevenue |-> formatCurrency(revenue.totalRevenue) ]

----------------------------------------------------------------------------
(* Rendering on its own: a component or page is given its props, or the      *)
(* results of its queries, and renders; a page may render again              *)

\* Sequences over S of length lo..hi
SeqsOf(S, lo, hi) == UNION { [1..n -> S] : n \in lo..hi }

FearComponents ==
    { None,
      [ regulatory_risk |-> 35, technology_risk |-> 20, feedstock_risk |-> 15,
        counterparty_risk |-> 10, market_risk |-> 12, esg_concerns |-> 8 ],
      [ regulatory_risk |-> 0, technology_risk |-> 0, feedstock_risk |-> 0,
        counterparty_risk |-> 0, market_risk |-> 0, esg_concerns |-> 0 ] }

\* Payloads of /api/v1/sentiment/index
IndexDatas ==
    { [ overall_index |-> Num(o), weekly_change |-> Num(5), bullish_count |-> Num(b),
        bearish_count |-> Num(3), documents_analyzed |-> Num(1250),
        fear_components |-> f ] :
        o \in {-12, 0, 42}, b \in {0, 7}, f \in FearComponents }

\* Payloads of /api/v1/sentiment/documents/feed
DocumentsDatas ==
    { [ list |-> << >> ],
      [ list |-> << [ id |-> "d1", title |-> "ARENA funding round", sentiment |-> "BULLISH",
                      sentiment_score |-> 1 ],
                    [ id |-> "d2", title |-> "Feedstock shortfall", sentiment |-> "BEARISH",
                      sentiment_score |-> -1 ] >> ] }

\* Payloads of /api/v1/sentiment/lenders
LendersDatas ==
    { [ list |-> << [ lender |-> "CEFC", sentiment |-> 4, trend |-> t ] >> ] :
        t \in { <<1, 3, 2>>, <<5, 5>> } }

\* Payloads of /api/v1/prices/feedstock
PricesDatas ==
    { [ list |-> << >> ] }
    \cup
    { [ list |-> << [ feedstock |-> "UCO", spot_price |-> Num(p), change_7d |-> Num(2) ],
                    [ feedstock |-> "Tallow", spot_price |-> Num(850), change_7d |-> Num(-1) ] >> ] :
        p \in {0, 1200} }

\* Payloads of /api/v1/policy/sustainability
MetricsDatas ==
    { [ totalEmissionsAvoided |-> Num(a), projectsFinanced |-> Num(47),
        creditsIssued |-> Num(89000) ] : a \in {125000, 98000} }

\* Props a KpiCard is given
KpiCardProps ==
    { [ label |-> "Overall Index", value |-> Num(v), prefix |-> "", suffix |-> "",
        delta |-> d, deltaLabel |-> "7d", trend |-> t, loading |-> l ] :
        v \in {-5, 0, 1250}, d \in {None, Num(-5), Num(0), Num(12)},
        t \in {None, Str("up"), Str("down"), Str("flat")}, l \in BOOLEAN }

\* Candles: open and close on either side of each other, or equal
Candles ==
    { [ time |-> 1, open |-> o, high |-> h, low |-> l, close |-> c ] :
        o \in {95, 100}, c \in {95, 100}, h \in {100, 105}, l \in {90, 95} }

\* What a render may be given
RenderInputs ==
    { [ op |-> "props", component |-> "KpiCard", props |-> p ] : p \in KpiCardProps }
    \cup { [ op |-> "props", component |-> "TextSparkline", series |-> d ] :
             d \in SeqsOf(-1..7, 0, MaxSeries) }
    \cup { [ op |-> "props", component |-> "BarList",
             items |-> [ i \in 1..Len(vs) |-> [ name |-> ToString(i), value |-> vs[i] ] ] ] :
             vs \in SeqsOf(-2..3, 0, MaxSeries) }
    \cup { [ op |-> "props", component |-> "Chart", mockData |-> m, seed |-> sd ] :
             m \in SeqsOf(Candles, 1, 1), sd \in Seeds }
    \cup { [ op |-> "props", component |-> "SentimentDashboard",
             index |-> i, lenders |-> l, documents |-> d, seed |-> sd ] :
             i \in QueryResults(IndexDatas), l \in QueryResults(LendersDatas),
             d \in QueryResults(DocumentsDatas), sd \in Seeds }
    \cup { [ op |-> "props", component |-> "generateMockOHLCData",
             feedstock |-> f, timeframe |-> tf, clock |-> c, seed |-> sd ] :
             f \in {"uco", "tallow", "canola", "palm"},
             tf \in {"1D", "1W", "1M", "3M", "1Y"},
             \* the clock of the call: zone, local day (days are numbered), local
             \* hour and the day daylight saving time starts
             c \in { [ zone |-> z, day |-> 400, hour |-> h, dstStart |-> 372 ] :
                       z \in {"UTC", "Australia/Brisbane", "Australia/Sydney"},
                       h \in {0, 10, 12} },
             sd \in Seeds }
    \cup { [ op |-> "props", component |-> "PricesDashboard", prices |-> r ] :
             r \in QueryResults(PricesDatas) }
    \cup { [ op |-> "props", component |-> "ProjectedRevenue",
             calculator |-> c, carbonPrices |-> cp ] :
             \* the slider runs from 10000 to 500000 in steps of 5000
             c \in { [ annualProduction |-> 5000 * k, feedstockType |-> f,
                       certificationScheme |-> cs ] :
                       k \in 2..100, f \in {"uco", "tallow", "canola", "palm"},
                       cs \in {"iscc", "rsb", "none"} },
             \* useCarbonPrices() holds nothing, both markets, or one market
             cp \in {None}
                    \cup { [ list |-> << [market |-> "EU", price |-> e],
                                         [market |-> "ACCU", price |-> a] >> ] :
                             e \in {800, 802}, a \in {350, 333} }
                    \cup { [ list |-> << [market |-> "EU", price |-> 785] >> ] } }
    \cup { [ op |-> "props", component |-> "PolicyDashboard", metrics |-> r ] :
             r \in QueryResults(MetricsDatas) }

\* The output of the component for the props in `in`
RenderOutput(in) ==
    CASE in.component = "KpiCard" -> KpiCard(in.props)
      [] in.component = "TextSparkline" -> TextSparkline(in.series)
      [] in.component = "BarList" -> BarList(in.items)
      [] in.component = "Chart" -> ChartEffect(in.mockData, in.seed)
      [] in.component = "generateMockOHLCData" ->
            generateMockOHLCData(in.feedstock, in.timeframe, in.clock, in.seed)
      [] in.component = "SentimentDashboard" ->
            SentimentDashboard(in.index, in.lenders, in.documents, in.seed)
      [] in.component = "ProjectedRevenue" ->
            ProjectedRevenue(in.calculator, in.carbonPrices)
      [] in.component = "PricesDashboard" -> PricesKpis(in.prices)
      [] in.component = "PolicyDashboard" -> SustainabilityMetrics(in.metrics)

InitRender ==
    /\ now = 0
    /\ cache = {}
    /\ obs = [o \in Observers |-> Unmounted]
    /\ issued = [h \in Hashes |-> 0]
    /\ net = {}
    /\ ops = 0
    /\ pool = {CallSentimentIndex}
    /\ polls = 0
    /\ mutation = MutationIdle
    /\ sentAt = [h \in Hashes |-> 0]
    /\ page = PageUnmounted
    /\ last \in RenderInputs

\* The component renders with the props it was given
Render ==
    /\ last.op = "props"
    /\ last' = [ op |-> "render", in |-> last, output |-> RenderOutput(last) ]
    /\ UNCHANGED <<now, cache, obs, issued, net, ops, polls, pool, mutation, sentAt, page>>

\* React renders the page again with unchanged query results: the render
\* body runs anew, and with it every Math.random() in it
RenderAgain(seed) ==
    /\ last.op = "render"
    /\ "seed" \in DOMAIN last.in
    /\ LET in == [last.in EXCEPT !.seed = seed]
       IN  last' = [ op |-> "render", in |-> in, output |-> RenderOutput(in),
                     before |-> last.output ]
    /\ UNCHANGED <<now, cache, obs, issued, net, ops, polls, pool, mutation, sentAt, page>>

RenderNext == Render \/ \E seed \in Seeds : RenderAgain(seed)

SpecRender == InitRender /\ [][RenderNext]_vars

----------------------------------------------------------------------------
(* The request fetchApi sends: base URL, endpoint, merged options *)

\* JavaScript's truthiness of an environment value: undefined (None) and the
\* empty string are falsy
TruthyEnv(v) == v # None /\ v.str # ""

\* (mutant) only an undefined variable falls back to the defaults
API_BASE_URL_Nullish(env) ==
    IF env.VITE_API_BASE_URL # None THEN env.VITE_API_BASE_URL.str
    ELSE IF env.PROD THEN "https://abfi-ai.vercel.app" ELSE "http://localhost:8000"

\* API_BASE_URL for the build environment env = import.meta.env
API_BASE_URL(env) ==
    IF TruthyEnv(env.VITE_API_BASE_URL) THEN env.VITE_API_BASE_URL.str
    ELSE IF env.PROD THEN "https://abfi-ai.vercel.app" ELSE "http://localhost:8000"

\* The object literal { ...a, ...b }: the properties of a, then those of b,
\* a later property replacing an earlier one of the same name
Spread(a, b) ==
    [ k \in DOMAIN a \cup DOMAIN b |-> IF k \in DOMAIN b THEN b[k] ELSE a[k] ]

\* The object without properties
EmptyObject == [ k \in {} |-> "" ]

\* The arguments of the fetch() call in fetchApi(endpoint, options); options
\* is None when the caller passes none, else an object with some of method,
\* body and headers
fetchCall(env, endpoint, options) ==
    LET given   == IF options = None THEN EmptyObject ELSE options
        headers == Spread("Content-Type" :> "application/json",
                          IF "headers" \in DOMAIN given THEN given.headers
                          ELSE EmptyObject)
    IN  [ url  |-> API_BASE_URL(env) \o endpoint,
          init |-> Spread("headers" :> headers, given) ]

\* Header objects a caller may pass
HeaderObjects ==
    { "Authorization" :> "Bearer t",
      "Content-Type" :> "text/plain",
      ("Authorization" :> "Bearer t") @@ ("Content-Type" :> "text/plain") }

\* The options a caller may pass: none, or an object with any of method,
\* body and headers
OptionObjects ==
    { None }
    \cup { ("method" :> "POST") @@ ("body" :> JSONstringify(input)) :
             input \in CalculatorInputs }
    \cup { "headers" :> h : h \in HeaderObjects }
    \cup { ("method" :> "POST") @@ ("body" :> JSONstringify(input)) @@ ("headers" :> h) :
             input \in CalculatorInputs, h \in HeaderObjects }

InitRequest ==
    /\ now = 0
    /\ cache = {}
    /\ obs = [o \in Observers |-> Unmounted]
    /\ issued = [h \in Hashes |-> 0]
    /\ net = {}
    /\ ops = 0
    /\ pool = PolicyPool
    /\ polls = 0
    /\ mutation = MutationIdle
    /\ sentAt = [h \in Hashes |-> 0]
    /\ page = PageUnmounted
    /\ last \in { [ op |-> "call", env |-> env, endpoint |-> ep, options |-> opt ] :
                     \* import.meta.env of a build
                     env \in { [ VITE_API_BASE_URL |-> v, PROD |-> p ] :
                                v \in { None, Str(""), Str("https://api.example.com") },
                                p \in BOOLEAN },
                     \* endpoints the api objects call fetchApi with
                     ep \in { "/api/v1/sentiment/index",
                              "/api/v1/prices/feedstock",
                              "/api/v1/prices/history/uco?period=1M",
                              "/api/v1/policy/carbon-calculator" },
                     opt \in OptionObjects }

\* fetchApi(endpoint, options) calls fetch()
SendRequest ==
    /\ last.op = "call"
    /\ last' = [ op |-> "fetch", in |-> last,
                 request |-> fetchCall(last.env, last.endpoint, last.options) ]
    /\ UNCHANGED <<now, cache, obs, issued, net, ops, polls, pool, mutation, sentAt, page>>

SpecRequest == InitRequest /\ [][SendRequest]_vars

----------------------------------------------------------------------------
(* The hooks on their own: two components call hooks of useApi.ts *)

\* Argument values the views pass
FeedstockArgs == {"", "uco", "tallow"}
LimitArgs == {10, 20}

Call(hook, args, opts) == [hook |-> hook, args |-> args, opts |-> opts]

\* Every query hook of useApi.ts, with every argument value
AllHookCalls ==
    { Call("useSentimentIndex", <<>>, useSentimentIndex),
      Call("useLenderScores", <<>>, useLenderScores),
      Call("usePriceKpis", <<>>, usePriceKpis),
      Call("useFeedstockPrices", <<>>, useFeedstockPrices),
      Call("useRegionalPrices", <<>>, useRegionalPrices),
      Call("usePolicyKpis", <<>>, usePolicyKpis),
      Call("usePolicyUpdates", <<>>, usePolicyUpdates),
      Call("useCarbonPrices", <<>>, useCarbonPrices),
      Call("useSustainabilityMetrics", <<>>, useSustainabilityMetrics),
      Call("usePolicyTimeline", <<>>, usePolicyTimeline),
      Call("usePolicyKanban", <<>>, usePolicyKanban),
      Call("useMandateScenarios", <<>>, useMandateScenarios),
      Call("useOfftakeMarket", <<>>, useOfftakeMarket) }
    \cup { Call("useSentimentHistory", <<ToString(d)>>, useSentimentHistory(d)) : d \in {30, 365} }
    \cup { Call("useDocumentFeed", <<ToString(l)>>, useDocumentFeed(l)) : l \in LimitArgs }
    \cup { Call("usePriceHistory", <<f, p>>, usePriceHistory(f, p)) :
             f \in FeedstockArgs, p \in {"1M", "1Y"} }
    \cup { Call("useOhlcData", <<c, p>>, useOhlcData(c, p)) :
             c \in FeedstockArgs, p \in {"1M", "1Y"} }
    \cup { Call("useForwardCurve", <<c>>, useForwardCurve(c)) : c \in FeedstockArgs }
    \cup { Call("useRegionalHeatmap", <<c>>, useRegionalHeatmap(c)) : c \in FeedstockArgs }

\* The policy a hook call subscribes with
Policy(opts) ==
    [ staleTime |-> opts.staleTime, refetchInterval |-> opts.refetchInterval,
      enabled |-> opts.enabled ]

InitHooks ==
    /\ now = 0
    /\ cache = {}
    /\ obs = [o \in Observers |-> Unmounted]
    /\ issued = [h \in Hashes |-> 0]
    /\ net = {}
    /\ ops = 0
    /\ pool = PolicyPool
    /\ polls = 0
    /\ mutation = MutationIdle
    /\ sentAt = [h \in Hashes |-> 0]
    /\ page = PageUnmounted
    /\ last \in { [ op |-> "components", a |-> a, b |-> b ] :
                     a \in AllHookCalls, b \in AllHookCalls }

\* Both components render: each hook hands its key and policy to useQuery
CallHooks ==
    /\ last.op = "components"
    /\ last' = [ op |-> "useQuery", a |-> last.a, b |-> last.b,
                 hashA |-> Serialize(last.a.opts.queryKey), policyA |-> Policy(last.a.opts),
                 hashB |-> Serialize(last.b.opts.queryKey), policyB |-> Policy(last.b.opts) ]
    /\ UNCHANGED <<now, cache, obs, issued, net, ops, polls, pool, mutation, sentAt, page>>

SpecHooks == InitHooks /\ [][CallHooks]_vars

----------------------------------------------------------------------------
(* PricesDashboard: selections, the chart effect and its cleanup *)

\* The timeframe buttons
Timeframes == << "1D", "1W", "1M", "3M", "1Y" >>

\* The body of the chart effect: unless the container is missing, a chart is
\* created and kept in chartRef, and handleResize (which closes over that
\* chart) is registered on the window; the effect returns its cleanup
useEffectChart(p) ==
    IF ~p.container THEN [p EXCEPT !.cleanup = 0]
    ELSE LET chart == p.created + 1
         IN  [p EXCEPT !.created   = chart,
                       !.charts    = @ \cup {chart},
                       !.chartRef  = chart,
                       !.listeners = @ \cup {chart},
                       !.cleanup   = chart]

\* (mutant) the cleanup removes the chart and leaves its resize listener
cleanupChartKeepsListener(p) ==
    IF p.cleanup = 0 THEN p
    ELSE [p EXCEPT !.charts  = @ \ {p.cleanup},
                   !.cleanup = 0]

\* The cleanup the effect returned: removeEventListener, then chart.remove()
cleanupChart(p) ==
    IF p.cleanup = 0 THEN p
    ELSE [p EXCEPT !.listeners = @ \ {p.cleanup},
                   !.charts    = @ \ {p.cleanup},
                   !.cleanup   = 0]

\* The cache after the page's usePriceHistory(feedstock, period) subscribes
SubscribeHistory(c, t, feedstock, period) ==
    Subscribe(c, t, usePriceHistory(feedstock, period), 1).cache

\* PricesDashboard mounts: state starts at 'uco' and '1M', the history hook
\* subscribes, the container is attached and the chart effect runs
PageMount ==
    /\ ~page.mounted
    /\ ops < MaxOps
    /\ ops' = ops + 1
    /\ page' = useEffectChart([page EXCEPT !.mounted = TRUE,
                                           !.selectedFeedstock = "uco",
                                           !.timeframe = "1M",
                                           !.container = TRUE])
    /\ cache' = SubscribeHistory(cache, now, "uco", "1M")
    /\ last' = [op |-> "pageMount"]
    /\ UNCHANGED <<now, obs, issued, net, polls, pool, mutation, sentAt>>

\* The page renders with a new selection: the history hook moves to the new
\* key, and since a dependency of the chart effect changed, its cleanup runs
\* and then the effect again.  Setting the state to the value it has renders
\* nothing.
Select(feedstock, period, op) ==
    /\ page.mounted
    /\ ops < MaxOps
    /\ ops' = ops + 1
    /\ IF feedstock = page.selectedFeedstock /\ period = page.timeframe
       THEN UNCHANGED <<page, cache>>
       ELSE /\ page' = useEffectChart(cleanupChart(
                          [page EXCEPT !.selectedFeedstock = feedstock,
                                       !.timeframe = period]))
            /\ cache' = SubscribeHistory(
                          Unsubscribe(cache, now,
                                      usePriceHistory(page.selectedFeedstock,
                                                      page.timeframe).queryKey),
                          now, feedstock, period)
    /\ last' = [op |-> op, feedstock |-> feedstock, period |-> period]
    /\ UNCHANGED <<now, obs, issued, net, polls, pool, mutation, sentAt>>

\* A KPI card is clicked: setSelectedFeedstock(feedstock.id)
SelectFeedstock(i) == Select(FEEDSTOCK_OPTIONS[i].id, page.timeframe, "selectFeedstock")

\* A timeframe button is clicked: setTimeframe(tf)
SelectTimeframe(i) == Select(page.selectedFeedstock, Timeframes[i], "selectTimeframe")

\* The window is resized: every registered handleResize runs on its chart
WindowResize ==
    /\ last' = [ op |-> "resize", handlers |-> page.listeners,
                 onRemovedChart |-> page.listeners \ page.charts ]
    /\ last' # last
    /\ UNCHANGED <<now, cache, obs, issued, net, ops, polls, pool, mutation, sentAt, page>>

\* PricesDashboard unmounts: the effect's cleanup runs and the history hook
\* unsubscribes
PageUnmount ==
    /\ page.mounted
    /\ ops < MaxOps
    /\ ops' = ops + 1
    /\ page' = [cleanupChart(page) EXCEPT !.mounted = FALSE, !.container = FALSE]
    /\ cache' = Unsubscribe(cache, now,
                            usePriceHistory(page.selectedFeedstock, page.timeframe).queryKey)
    /\ last' = [op |-> "pageUnmount"]
    /\ UNCHANGED <<now, obs, issued, net, polls, pool, mutation, sentAt>>

PageNext ==
    \/ PageMount
    \/ \E i \in 1..Len(FEEDSTOCK_OPTIONS) : SelectFeedstock(i)
    \/ \E i \in 1..Len(Timeframes) : SelectTimeframe(i)
    \/ WindowResize
    \/ PageUnmount

InitPage ==
    /\ Init
    /\ pool = {CallPriceHistory("uco", "1M"), CallPriceHistory("", "1M")}

SpecPage == InitPage /\ [][PageNext]_vars

----------------------------------------------------------------------------
(* Properties *)

\* The entries stored under the serialized key h
EntriesAt(c, h) == { e \in c : Serialize(e.key) = h }

\* The mounted observers whose key serializes to h
ObserversAt(h) ==
    { o \in Observers : obs[o] # Unmounted /\ Serialize(obs[o].opts.queryKey) = h }

\* Observer o subscribes in this step (a mount, or a rerender with a new key)
Subscribes(o) == obs'[o] # Unmounted /\ obs'[o] # obs[o]

HistoryHash == "[\"prices\",\"history\",\"uco\",\"1M\"]"
EmptyHistoryHash == "[\"prices\",\"history\",\"\",\"1M\"]"
FeedstockHash == "[\"prices\",\"feedstock\"]"
KpisHash == "[\"prices\",\"kpis\"]"
SentimentHash == "[\"sentiment\",\"index\"]"

\* C1: in every reachable state there is at most one QueryEntry per serialized
\* QueryKey; every mounted observer is attached to exactly the one entry of
\* its serialized key, so observers with identically serialized keys share an
\* entry (its reference count is the number of them) and observers with
\* differently serialized keys never share one.
C1_OneEntryPerKey ==
    /\ \A e1, e2 \in cache : Serialize(e1.key) = Serialize(e2.key) => e1 = e2
    /\ \A o \in Observers :
          obs[o] # Unmounted =>
             Cardinality(EntriesAt(cache, Serialize(obs[o].opts.queryKey))) = 1
    /\ \A e \in cache : e.refs = Cardinality(ObserversAt(Serialize(e.key)))

\* Two components both call useFeedstockPrices and share the one entry
C1_Witness ==
    /\ obs[1] = CallFeedstockPrices
    /\ obs[2] = CallFeedstockPrices
    /\ \E e \in cache : e.hash = FeedstockHash /\ e.refs = 2
    /\ Cardinality(EntriesAt(cache, FeedstockHash)) = 1

C3_Supersession ==
    [][ \A req \in net :
          (req \notin net' /\ req.id < issued[req.hash]) => cache' = cache ]_vars

\* Call 1 (A) was issued, then call 2 (B); B resolved first and A, answered
\* with a payload too, resolved after it: the entry holds B's payload
C3_Witness ==
    /\ last.op = "resolve" /\ last.id = 1 /\ ~last.applied
    /\ "response" \in DOMAIN last.settled
    /\ last.settled.response.status = 200
    /\ issued[last.hash] = 2
    /\ \E e \in cache : /\ e.hash = last.hash
                        /\ e.status = "success"
                        /\ e.data = [fetch |-> 2]

\* C4: no network call is ever issued for the key of a disabled query,
\* whatever the time; usePriceHistory, useOhlcData, useForwardCurve and
\* useRegionalHeatmap are disabled exactly while their feedstock/commodity
\* argument is the empty string.
C4_DisabledNeverFetches ==
    /\ \A c \in HookCalls :
          (c.hook = "usePriceHistory" /\ c.args[1] = "") =>
             issued[Serialize(c.opts.queryKey)] = 0
    /\ \A c \in HookCalls : ~c.opts.enabled => issued[Serialize(c.opts.queryKey)] = 0
    /\ \A p \in {"1D", "1W", "1M", "3M", "1Y"} :
          /\ ~usePriceHistory("", p).enabled /\ usePriceHistory("uco", p).enabled
          /\ ~useOhlcData("", p).enabled /\ useOhlcData("uco", p).enabled
    /\ ~useForwardCurve("").enabled /\ useForwardCurve("uco").enabled
    /\ ~useRegionalHeatmap("").enabled /\ useRegionalHeatmap("uco").enabled

\* An observer sat on usePriceHistory("", "1M") for more than 300 s without a
\* single call, and started fetching on the rerender that gave it "uco"
C4_Witness ==
    /\ last.op = "rerender" /\ last.hash = HistoryHash /\ last.fetch
    /\ now > 300000
    /\ issued[EmptyHistoryHash] = 0
    /\ \E o \in Observers : obs[o] = CallPriceHistory("uco", "1M")

\* C5: an observer mounting with key ["prices","history","uco","1M"] issues
\* exactly one network call when the key has no entry; when the entry is
\* cached with a resolved fetch (nothing in flight, not invalidated) the mount
\* issues no call if at most 300000 ms have passed since that resolution and
\* exactly one call if more than 300000 ms have passed.
C5_StaleTimeHistory ==
    [][ \A o \in Observers :
          (obs[o] = Unmounted /\ obs'[o] = CallPriceHistory("uco", "1M")) =>
             LET n == issued'[HistoryHash] - issued[HistoryHash]
                 E == EntriesAt(cache, HistoryHash)
             IN  /\ E = {} => n = 1
                 /\ \A e \in E :
                       ( /\ e.status \in {"success", "error"}
                         /\ e.inflight = 0
                         /\ ~e.invalidated ) =>
                          /\ now - e.lastFetchedAt < 300000 => n = 0
                          /\ now - e.lastFetchedAt = 300000 => n = 0
                          /\ now - e.lastFetchedAt > 300000 => n = 1 ]_vars

\* The view was mounted (first call), unmounted, and mounted again more than
\* 300 s after the first call resolved: the second call is on the wire
C5_Witness ==
    /\ last.op = "mount" /\ last.hash = HistoryHash /\ last.fetch
    /\ issued[HistoryHash] = 2
    /\ ops = 3
    /\ \E e \in cache : /\ e.hash = HistoryHash
                        /\ e.status = "success"
                        /\ now - e.lastFetchedAt > 300000

\* C6: a polled entry (refetch interval 30000 ms) has its interval timer
\* cancelled in the very step in which its subscriber count reaches zero: no
\* entry without subscribers has a timer, no interval fetch is ever issued for
\* an entry without subscribers, and a running timer is due within 30000 ms.
C6_NoPollingWithoutSubscribers ==
    /\ \A e \in cache : e.refs = 0 => e.timerAt = NoTimer
    /\ \A e \in cache : e.timerAt # NoTimer => e.timerAt - now <= 30000
    /\ last.op = "interval" => \E e \in cache : e.hash = last.hash /\ e.refs > 0
    /\ \A e \in cache :
          (e.refs > 0 /\ e.hash = KpisHash) => e.timerAt # NoTimer

\* usePriceKpis was polled at least once, its last subscriber left, and more
\* than 30 s later no further call has been issued
C6_Witness ==
    /\ polls >= 1
    /\ last.op = "tick"
    /\ \E e \in cache : /\ e.hash = KpisHash
                        /\ e.refs = 0
                        /\ e.timerAt = NoTimer
                        /\ e.gcAt # NoTimer
                        /\ now - (e.gcAt - GraceMs) > 30000
                        /\ issued[KpisHash] = 1

\* The entries the prices hooks subscribe to, and those of useSentimentIndex
PricesHooks ==
    { "usePriceKpis", "useFeedstockPrices", "usePriceHistory", "useRegionalPrices",
      "useOhlcData", "useForwardCurve", "useRegionalHeatmap" }

HookEntries(c, hooks) ==
    { e \in c : \E call \in HookCalls :
                   call.hook \in hooks /\ Serialize(call.opts.queryKey) = Serialize(e.key) }

\* key begins with the segments of prefix
BeginsWith(key, prefix) ==
    Len(key) >= Len(prefix) /\ SubSeq(key, 1, Len(prefix)) = prefix

\* C7: invalidate(prefix) marks every entry whose key begins with the prefix
\* and leaves every other entry as it was; invalidate("prices") marks the
\* entries of the prices hooks and leaves the entry of useSentimentIndex
\* untouched; an observer subscribing to a marked entry of an enabled query
\* issues a network call whatever the entry's age, unless the refetch is
\* already on the wire (C2).
C7_InvalidatePrefix ==
    [][ /\ last'.op = "invalidate" =>
              /\ \A e \in cache :
                    BeginsWith(e.key, last'.prefix) =>
                       \E f \in cache' : f.id = e.id /\ f.key = e.key /\ f.invalidated
              /\ \A e \in cache : ~BeginsWith(e.key, last'.prefix) => e \in cache'
              /\ last'.prefix = <<Str("prices")>> =>
                    /\ \A e \in HookEntries(cache, PricesHooks) :
                          \E f \in cache' : f.id = e.id /\ f.key = e.key /\ f.invalidated
                    /\ \A e \in HookEntries(cache, {"useSentimentIndex"}) : e \in cache'
        /\ \A o \in Observers :
              (Subscribes(o) /\ obs'[o].opts.enabled) =>
                 LET h == Serialize(obs'[o].opts.queryKey)
                 IN  \A e \in EntriesAt(cache, h) :
                        (e.invalidated /\ e.inflight = 0) =>
                           /\ issued'[h] = issued[h] + 1
                           /\ [id |-> issued'[h], hash |-> h] \in net' \ net
        /\ BeginsWith(usePriceKpis.queryKey, <<Str("prices")>>)
        /\ BeginsWith(useOhlcData("uco", "1Y").queryKey, <<Str("prices")>>)
        /\ ~BeginsWith(useSentimentIndex.queryKey, <<Str("prices")>>) ]_vars

\* invalidate("prices") ran with the feedstock prices and the sentiment index
\* both cached and fresh: the first is marked, the second is not
C7_Witness ==
    /\ last.op = "invalidate" /\ last.prefix = <<Str("prices")>>
    /\ \E e \in cache : /\ e.hash = FeedstockHash
                        /\ e.status = "success"
                        /\ e.invalidated
                        /\ now - e.lastFetchedAt < usePriceKpis.staleTime
    /\ \E e \in cache : /\ e.hash = SentimentHash
                        /\ e.status = "success"
                        /\ ~e.invalidated

\* fetch() settled without a response, or with a status outside 200-299
Failed(settled) ==
    \/ "rejected" \in DOMAIN settled
    \/ settled.response.status < 200
    \/ settled.response.status > 299

\* C9 as stated: fetchApi returns the payload exactly when the status is 2xx;
\* for a non-2xx response it throws an error that names the status and
\* carries the response body when there is one.
C9_AsStated ==
    (last.op = "fetchApi" /\ "response" \in DOMAIN last.settled) =>
       LET response == last.settled.response
           outcome  == last.outcome
       IN  /\ ("returned" \in DOMAIN outcome) <=> ~Failed(last.settled)
           /\ Failed(last.settled) =>
                 /\ "thrown" \in DOMAIN outcome
                 /\ \E i \in 1..Len(outcome.thrown.message) :
                       outcome.thrown.message[i] = ToString(response.status)
                 /\ "empty" \notin DOMAIN response.body =>
                       /\ "body" \in DOMAIN outcome.thrown
                       /\ outcome.thrown.body = response.body

\* C9 (amended): fetchApi returns the parsed payload exactly when the status
\* is 2xx and the body is JSON; a 2xx response whose body is not JSON makes it
\* reject with the parser's error; for every non-2xx response it throws and
\* never returns a payload, and the thrown Error holds only the message
\* "API Error: <status> <statusText>", never the response body; without a
\* response the rejection of fetch() itself is passed on.
C9_FetchApiOutcome ==
    last.op = "fetchApi" =>
       LET outcome == last.outcome
       IN  IF "rejected" \in DOMAIN last.settled
           THEN outcome = [thrown |-> [name |-> "TypeError"]]
           ELSE LET response == last.settled.response
                    isJson   == "json" \in DOMAIN response.body
                IN  /\ ("returned" \in DOMAIN outcome) <=> (~Failed(last.settled) /\ isJson)
                    /\ "returned" \in DOMAIN outcome => outcome.returned = response.body.json
                    /\ Failed(last.settled) =>
                          outcome = [thrown |->
                                       [ name    |-> "Error",
                                         message |-> <<"API Error:",
                                                       ToString(response.status),
                                                       response.statusText>> ]]
                    /\ (~Failed(last.settled) /\ ~isJson) =>
                          outcome = [thrown |-> [name |-> "SyntaxError"]]

\* fetchApi threw for a 404 whose body was available: the error names the
\* status and has no body
C9_Witness ==
    /\ last.op = "fetchApi"
    /\ "response" \in DOMAIN last.settled
    /\ last.settled.response.status = 404
    /\ "json" \in DOMAIN last.settled.response.body
    /\ "thrown" \in DOMAIN last.outcome
    /\ "body" \notin DOMAIN last.outcome.thrown

\* C10: when the awaited call of a key fails (no response, or a non-2xx
\* status) the failure is stored on that key's entry as status = error with
\* the error; every entry of another key is left as it was and every observer
\* stays mounted as it was.
C10_FailureStoredOnEntry ==
    [][ (last'.op = "resolve" /\ last'.applied /\ Failed(last'.settled)) =>
           /\ \A e \in EntriesAt(cache, last'.hash) :
                 \E f \in cache' : /\ f.id = e.id
                                   /\ f.key = e.key
                                   /\ f.status = "error"
                                   /\ f.error # None
           /\ \A e \in cache : Serialize(e.key) # last'.hash => e \in cache'
           /\ Cardinality(cache') = Cardinality(cache)
           /\ obs' = obs ]_vars

\* The feedstock call failed with a 404 while the sentiment index, held by
\* another observer, stays cached with its data
C10_Witness ==
    /\ last.op = "resolve" /\ last.applied /\ last.hash = FeedstockHash
    /\ "response" \in DOMAIN last.settled
    /\ last.settled.response.status = 404
    /\ \E e \in cache : e.hash = FeedstockHash /\ e.status = "error" /\ e.refs = 1
    /\ \E e \in cache : /\ e.hash = SentimentHash
                        /\ e.status = "success"
                        /\ e.data # None
                        /\ e.refs = 1

\* The pages, the queries each consumes, and the payloads of each query
Pages == { "SentimentDashboard", "PricesDashboard", "PolicyDashboard" }

Consumed(in) ==
    CASE in.component = "SentimentDashboard" ->
            { [ query |-> "useSentimentIndex", result |-> in.index, datas |-> IndexDatas ],
              [ query |-> "useLenderScores", result |-> in.lenders, datas |-> LendersDatas ],
              [ query |-> "useDocumentFeed", result |-> in.documents, datas |-> DocumentsDatas ] }
      [] in.component = "PricesDashboard" ->
            { [ query |-> "useFeedstockPrices", result |-> in.prices, datas |-> PricesDatas ] }
      [] in.component = "PolicyDashboard" ->
            { [ query |-> "useSustainabilityMetrics", result |-> in.metrics,
                datas |-> MetricsDatas ] }

\* What the page shows in the parts fed by `query` when its result is r
Shown(query, r) ==
    CASE query = "useSentimentIndex" -> [ kpis |-> SentimentKpis(r), fear |-> BarList(fearData(r)) ]
      [] query = "useLenderScores" -> [ lenders |-> SentimentLenders(r) ]
      [] query = "useDocumentFeed" -> [ documents |-> SentimentDocuments(r) ]
      [] query = "useFeedstockPrices" -> [ kpis |-> PricesKpis(r) ]
      [] query = "useSustainabilityMetrics" -> [ metrics |-> SustainabilityMetrics(r) ]

\* C11: a page rendered while a query it consumes has status error shows, in
\* the parts fed by that query, something it shows for no loading and for no
\* successful result of the query: the error state is a state of its own, and
\* the page never looks as if the query had succeeded.
C11_ErrorStateDistinct ==
    (last.op = "render" /\ last.in.component \in Pages) =>
       \A q \in Consumed(last.in) :
          q.result.status = "error" =>
             \A r \in QueryResults(q.datas) :
                r.status # "error" => Shown(q.query, r) # Shown(q.query, q.result)

\* C12 as stated: with the application's query client a window/tab refocus
\* refetches every subscribed query that is stale (enabled, and not already
\* being fetched).
C12_AsStated ==
    [][ last'.op = "focus" =>
              \A e \in cache :
                 ( /\ e.refs > 0
                   /\ PolicyFor(e.key).enabled
                   /\ e.inflight = 0
                   /\ now - e.lastFetchedAt > PolicyFor(e.key).staleTime ) =>
                    issued'[e.hash] = issued[e.hash] + 1 ]_vars

\* C12 (amended): refetch on window focus is an explicit flag of the query
\* client, and the application sets it off: a window/tab refocus issues no
\* network call and changes no entry, however stale the subscribed queries.
C12_FocusRefetchOff ==
    [][ last'.op = "focus" =>
           /\ ~queryClient.refetchOnWindowFocus
           /\ \A c \in HookCalls : ~c.opts.refetchOnWindowFocus
           /\ issued' = issued
           /\ net' = net
           /\ cache' = cache ]_vars

\* The window regained focus while a subscribed, enabled query was stale and
\* not being fetched, and no call went out
C12_Witness ==
    /\ last.op = "focus"
    /\ net = {}
    /\ \E e \in cache : /\ e.refs > 0
                        /\ e.status = "success"
                        /\ e.inflight = 0
                        /\ PolicyFor(e.key).enabled
                        /\ now - e.lastFetchedAt > PolicyFor(e.key).staleTime

\* C13: a query with a refetch interval (usePriceKpis: every 30000 ms, with a
\* staleTime of 60000 ms) has, for as long as it has a subscriber, a timer
\* due within one interval; each time the timer fires a network call is
\* issued whatever the age of the entry (unless one is already awaited, C2)
\* and the timer is set one interval ahead.
C13_PollingWhileSubscribed ==
    [][ /\ \A e \in cache :
              (e.hash = KpisHash /\ e.refs > 0) =>
                 /\ e.timerAt # NoTimer
                 /\ e.timerAt >= now
                 /\ e.timerAt - now <= 30000
        /\ last'.op = "interval" =>
              \A e \in EntriesAt(cache, last'.hash) :
                 /\ e.refs > 0
                 /\ e.timerAt = now
                 /\ e.inflight = 0 =>
                       /\ issued'[e.hash] = issued[e.hash] + 1
                       /\ [hash |-> e.hash, id |-> issued'[e.hash]] \in net'
                 /\ \E f \in cache' : /\ f.id = e.id
                                      /\ f.timerAt = now + 30000
                                      /\ f.inflight # 0 ]_vars

\* Thirty seconds after its data arrived, fresh for another thirty, the KPIs
\* entry is refetched by its timer
C13_Witness ==
    /\ last.op = "interval" /\ last.hash = KpisHash /\ last.fetch
    /\ \E e \in cache : /\ e.hash = KpisHash
                        /\ e.status = "success"
                        /\ e.refs > 0
                        /\ e.inflight # 0
                        /\ now - e.lastFetchedAt = 30000
                        /\ now - e.lastFetchedAt < usePriceKpis.staleTime

\* C14: executing the calculator mutation returns its result to the caller
\* and leaves the query cache unchanged.  Submitting sends a POST whose body
\* carries annual_output_tonnes, emission_factor and carbon_price; when the
\* request settles the caller gets the payload (success) or the error
\* (failure) of fetchApi; neither step creates, updates, invalidates or
\* removes an entry, or issues a query call.
C14_MutationLeavesCache ==
    [][ /\ last'.op = "mutate" =>
              /\ cache' = cache /\ issued' = issued /\ net' = net
              /\ mutation'.status = "pending"
              /\ mutation'.request.method = "POST"
              /\ \E input \in CalculatorInputs :
                    mutation'.request.body = JSONstringify(input)
        /\ last'.op = "mutationSettled" =>
              /\ cache' = cache /\ issued' = issued /\ net' = net
              /\ "returned" \in DOMAIN fetchApi(last'.settled) =>
                    /\ mutation'.status = "success"
                    /\ mutation'.data = fetchApi(last'.settled).returned
              /\ "thrown" \in DOMAIN fetchApi(last'.settled) =>
                    /\ mutation'.status = "error"
                    /\ mutation'.error = fetchApi(last'.settled).thrown ]_vars

\* A submission succeeded while a subscribed policy entry holds data, and
\* the entry is still not invalidated
C14_Witness ==
    /\ last.op = "mutationSettled"
    /\ mutation.status = "success"
    /\ \E e \in cache : /\ StartsWith(e.key, <<Str("policy")>>)
                         /\ e.status = "success" /\ e.refs > 0 /\ ~e.invalidated

\* C15: a QueryEntry is created on the first subscription to a new key; it
\* is never removed while it has a subscriber; when its last subscriber
\* leaves, the eviction grace timer is set a full grace period ahead (once no
\* call is awaited) and is never brought forward; an observer that subscribes
\* during the grace period is attached to the same entry, with its cached
\* data, and stops the timer; an entry is removed only when it has no
\* subscriber and its grace timer has run out.
C15_EntryLifecycle ==
    [][ /\ \A o \in Observers :
              Subscribes(o) =>
                 LET h == Serialize(obs'[o].opts.queryKey)
                 IN  /\ \E f \in cache' : f.hash = h /\ f.refs > 0 /\ f.gcAt = NoTimer
                     /\ \A e \in EntriesAt(cache, h) :
                           e.refs = 0 =>
                              \E f \in cache' : /\ f.id = e.id
                                                 /\ f.data = e.data
                                                 /\ e.status = "success" =>
                                                       f.status = "success"
                                                 /\ f.refs = 1
        /\ \A f \in cache' :
              EntriesAt(cache, f.hash) = {} =>
                 /\ f.refs = 1
                 /\ \E o \in Observers :
                       Subscribes(o) /\ Serialize(obs'[o].opts.queryKey) = f.hash
        /\ \A e \in cache :
              /\ e.refs > 0 => \E f \in cache' : f.id = e.id /\ f.hash = e.hash
              /\ EntriesAt(cache', e.hash) = {} =>
                    /\ e.refs = 0
                    /\ e.gcAt # NoTimer
                    /\ now >= e.gcAt
                    /\ last'.op = "evict"
              /\ \A f \in cache' :
                    (f.id = e.id /\ f.hash = e.hash /\ f.refs = 0) =>
                       /\ e.refs > 0 =>
                             IF f.inflight = 0 THEN f.gcAt = now + GraceMs
                                               ELSE f.gcAt = NoTimer
                       /\ (e.refs = 0 /\ e.gcAt # NoTimer) => f.gcAt >= e.gcAt
                       /\ (e.refs = 0 /\ e.gcAt = NoTimer) =>
                             f.gcAt \in {NoTimer, now + GraceMs} ]_vars

\* An entry was left by its last subscriber, kept for the whole grace period
\* without a new subscriber, and has just been evicted
C15_Witness ==
    /\ last.op = "evict"
    /\ EntriesAt(cache, last.hash) = {}
    /\ issued[last.hash] >= 1
    /\ now >= GraceMs
    /\ ObserversAt(last.hash) = {}

\* C16: on the rendered chart a candle, and its volume bar, is bullish (green)
\* exactly when close >= open and bearish (red) exactly when close < open,
\* whatever its high and low; a candle with close = open is bullish.
C16_CandleColour ==
    (last.op = "render" /\ last.in.component = "Chart") =>
       \A i \in 1..Len(last.in.mockData) :
          LET d == last.in.mockData[i]
              candle == last.output.candles[i]
              bar == last.output.volume[i]
          IN  /\ candle.color \in {"#10b981", "#ef4444"}
              /\ bar.color \in {"#10b98133", "#ef444433"}
              /\ candle.color = "#10b981" <=> d.close >= d.open
              /\ candle.color = "#ef4444" <=> d.close < d.open
              /\ bar.color = "#10b98133" <=> d.close >= d.open
              /\ bar.color = "#ef444433" <=> d.close < d.open

\* A flat candle (close = open) has been drawn, green, with a green volume bar
C16_Witness ==
    /\ last.op = "render" /\ last.in.component = "Chart"
    /\ \E i \in 1..Len(last.in.mockData) :
          /\ last.in.mockData[i].close = last.in.mockData[i].open
          /\ last.output.candles[i].color = "#10b981"
          /\ last.output.volume[i].color = "#10b98133"

\* C17: rendering is deterministic: a page or chart rendered again with the
\* same resolved query data produces the same output as before.
C17_RenderDeterministic ==
    [][ (last.op = "render" /\ last'.op = "render") => last'.output = last.output ]_vars

\* C18: TextSparkline maps every value of a non-empty series to one of
\* exactly 8 block glyphs by its position in [min, max]: the glyph index is
\* floor((value - min) / (max - min) * 7), always within 0..7; the minimum
\* gets the lowest glyph and, when the values differ, the maximum the highest;
\* a larger value never gets a lower glyph than a smaller one; when all values
\* are equal every glyph is the lowest block.
C18_SparklineQuantization ==
    (last.op = "render" /\ last.in.component = "TextSparkline" /\ Len(last.in.series) > 0) =>
       LET data == last.in.series
           index == last.output.index
           I == 1..Len(data)
           min == CHOOSE m \in { data[i] : i \in I } : \A i \in I : m <= data[i]
           max == CHOOSE m \in { data[i] : i \in I } : \A i \in I : data[i] <= m
       IN  /\ Len(blocks) = 8
           /\ Len(index) = Len(data)
           /\ \A i \in I : index[i] \in 0..7
           /\ max > min =>
                 \A i \in I :
                    /\ index[i] * (max - min) <= (data[i] - min) * 7
                    /\ (data[i] - min) * 7 < (index[i] + 1) * (max - min)
                    /\ data[i] = min => index[i] = 0
                    /\ data[i] = max => index[i] = 7
           /\ \A i, j \in I : data[i] <= data[j] => index[i] <= index[j]
           /\ max = min => \A i \in I : index[i] = 0

\* The series -1, 3, 7 has been drawn: lowest glyph, the fourth, the highest
C18_Witness ==
    /\ last.op = "render" /\ last.in.component = "TextSparkline"
    /\ last.in.series = <<-1, 3, 7>>
    /\ last.output.index = <<0, 3, 7>>

\* C19: BarList draws each item's bar with width value / max(values) as a
\* percentage: for every list (empty, with maximum 0, with negative values)
\* every width is a defined number between 0 and 100, and the item holding
\* the maximum has width 100.
C19_BarListWidth ==
    (last.op = "render" /\ last.in.component = "BarList") =>
       LET items == last.in.items
           bars == last.output
           I == 1..Len(items)
       IN  /\ Len(bars) = Len(items)
           /\ \A i \in I :
                 /\ "den" \in DOMAIN bars[i].width
                 /\ 0 <= bars[i].width.num
                 /\ bars[i].width.num <= 100 * bars[i].width.den
                 /\ (\A j \in I : items[j].value <= items[i].value) =>
                       bars[i].width.num = 100 * bars[i].width.den

\* C20: while a query consumed by a page is loading, the cards, rows and
\* metrics fed by that query are skeleton placeholders, showing neither
\* fetched data nor default values; KpiCard with loading = true renders only
\* its skeleton blocks whatever value and delta it is given.
C20_LoadingShowsSkeleton ==
    /\ (last.op = "render" /\ last.in.component = "KpiCard" /\ last.in.props.loading) =>
          last.output = [kind |-> "skeleton", blocks |-> 3]
    /\ (last.op = "render" /\ last.in.component \in Pages) =>
          \A q \in Consumed(last.in) :
             q.result.isLoading =>
                LET shown == Shown(q.query, q.result)
                IN  CASE q.query \in {"useSentimentIndex", "useFeedstockPrices"} ->
                            \A i \in 1..Len(shown.kpis) : shown.kpis[i].kind = "skeleton"
                      [] q.query = "useLenderScores" -> shown.lenders.kind = "skeleton"
                      [] q.query = "useDocumentFeed" -> shown.documents.kind = "skeleton"
                      [] q.query = "useSustainabilityMetrics" ->
                            \A i \in 1..Len(shown.metrics) :
                               shown.metrics[i].kind = "skeleton"

\* C21: the base URL is VITE_API_BASE_URL when that is set to a non-empty
\* value, otherwise https://abfi-ai.vercel.app in a production build and
\* http://localhost:8000 in development; the URL of every request is the
\* base followed by the endpoint path.
C21_BaseUrl ==
    last.op = "fetch" =>
       LET env == last.in.env
           set == env.VITE_API_BASE_URL # None /\ env.VITE_API_BASE_URL.str # ""
           base == IF set THEN env.VITE_API_BASE_URL.str
                   ELSE IF env.PROD THEN "https://abfi-ai.vercel.app"
                   ELSE "http://localhost:8000"
       IN  last.request.url = base \o last.in.endpoint

\* A development build whose VITE_API_BASE_URL is the empty string has sent
\* a request to localhost
C21_Witness ==
    /\ last.op = "fetch"
    /\ last.in.env = [VITE_API_BASE_URL |-> Str(""), PROD |-> FALSE]
    /\ last.request.url = "http://localhost:8000/api/v1/prices/feedstock"

\* C27: every request sent by fetchApi carries Content-Type:
\* application/json unless the caller's options.headers itself sets
\* Content-Type (then the caller's value is sent); headers the caller passes
\* under other names are sent too; the caller's method and body are passed
\* through unchanged.
C27_DefaultContentType ==
    last.op = "fetch" =>
       LET options == last.in.options
           given == IF options = None THEN {} ELSE DOMAIN options
           init == last.request.init
       IN  /\ "headers" \in DOMAIN init
           /\ "Content-Type" \in DOMAIN init.headers
           /\ IF "headers" \in given /\ "Content-Type" \in DOMAIN options.headers
              THEN init.headers["Content-Type"] = options.headers["Content-Type"]
              ELSE init.headers["Content-Type"] = "application/json"
           /\ "headers" \in given =>
                 \A name \in DOMAIN options.headers :
                    /\ name \in DOMAIN init.headers
                    /\ init.headers[name] = options.headers[name]
           /\ \A k \in {"method", "body"} :
                 /\ k \in given <=> k \in DOMAIN init
                 /\ k \in given => init[k] = options[k]

\* C22: over all hooks of useApi.ts and all argument values the key-to-policy
\* mapping is a function: two hook calls with the same serialized query key
\* are calls of the same hook and carry the same staleTime, refetchInterval
\* and enabled, so no entry is ever subscribed with two different policies.
C22_KeyDeterminesPolicy ==
    last.op = "useQuery" =>
       (last.hashA = last.hashB =>
           /\ last.a.hook = last.b.hook
           /\ last.policyA = last.policyB)

\* usePriceHistory and useSentimentHistory, both filed under "history", have
\* been called and gave different keys
C22_Witness ==
    /\ last.op = "useQuery"
    /\ last.a.hook = "usePriceHistory" /\ last.a.args = <<"uco", "1M">>
    /\ last.b.hook = "useSentimentHistory"
    /\ last.hashA = "[\"prices\",\"history\",\"uco\",\"1M\"]"
    /\ last.hashB = "[\"sentiment\",\"history\",365]"

\* C23: the polled queries (useDocumentFeed, usePriceKpis) refetch every
\* 30 s and go stale after 60 s; while a subscriber stays mounted and every
\* fetch succeeds within 30 s, a fetched entry is never stale: its age never
\* exceeds 60 s, because the next refetch lands no later than that.
C23_PolledNeverStale ==
    /\ \A l \in LimitArgs :
          /\ useDocumentFeed(l).refetchInterval = 30000
          /\ useDocumentFeed(l).staleTime = 60000
    /\ usePriceKpis.refetchInterval = 30000
    /\ \A e \in cache :
          (e.hash = KpisHash /\ e.refs > 0 /\ e.status = "success") =>
             /\ ~IsStale(e, now, PolicyFor(e.key).staleTime)
             /\ now - e.lastFetchedAt <= 60000
             /\ ~e.invalidated

\* The first payload arrived at once; the poll at 30 s took the full 30 s and
\* has just landed, at the instant the entry's age reached 60 s
C23_Witness ==
    /\ last.op = "resolve" /\ last.id = 2 /\ last.applied
    /\ now = 60000
    /\ sentAt[KpisHash] = 0
    /\ \E e \in cache : /\ e.hash = KpisHash /\ e.refs > 0
                         /\ e.status = "success"
                         /\ e.lastFetchedAt = 60000
                         /\ e.timerAt = 60000
                         /\ e.data = [fetch |-> 2]

\* C29: KpiCard's displayed trend is the trend prop whenever one is given,
\* whatever the sign of delta; without a trend prop it is up iff delta > 0,
\* down iff delta < 0 and flat when delta is 0 or undefined; the delta row
\* is shown iff delta is defined, and its arrow icon and colour class agree
\* with the trend.
C29_KpiCardTrend ==
    (last.op = "render" /\ last.in.component = "KpiCard" /\ ~last.in.props.loading) =>
       LET props == last.in.props
           row == last.output.delta
           trend == IF props.trend # None THEN props.trend.str
                    ELSE IF props.delta = None THEN "flat"
                    ELSE IF props.delta.num > 0 THEN "up"
                    ELSE IF props.delta.num < 0 THEN "down"
                    ELSE "flat"
       IN  /\ row # None <=> props.delta # None
           /\ row # None =>
                 /\ trend = "up" => (row.icon = "TrendingUp" /\ row.class = "number-positive")
                 /\ trend = "down" => (row.icon = "TrendingDown" /\ row.class = "number-negative")
                 /\ trend = "flat" => (row.icon = "Minus" /\ row.class = "number-neutral")

\* A card given trend "up" and a negative delta has been drawn with the
\* rising arrow
C29_Witness ==
    /\ last.op = "render" /\ last.in.component = "KpiCard"
    /\ last.in.props.trend = Str("up")
    /\ last.in.props.delta = Num(-5)
    /\ ~last.in.props.loading
    /\ last.output.delta.icon = "TrendingUp"
    /\ last.output.delta.class = "number-positive"

\* C24: in PricesDashboard at most one chart instance and at most one window
\* resize listener exist at any time, the listener being the one of the live
\* chart; a change of selectedFeedstock or timeframe removes the previous
\* chart and its listener and creates new ones; after unmount neither a chart
\* nor a listener remains.
C24_OneChartOneListener ==
    [][ /\ Cardinality(page'.charts) <= 1
        /\ Cardinality(page'.listeners) <= 1
        /\ page'.listeners = page'.charts
        /\ page'.mounted => page'.charts = {page'.chartRef}
        /\ ~page'.mounted => (page'.charts = {} /\ page'.listeners = {})
        /\ ( /\ page.mounted /\ page'.mounted
             /\ <<page'.selectedFeedstock, page'.timeframe>>
                   # <<page.selectedFeedstock, page.timeframe>> ) =>
              /\ page'.charts \cap page.charts = {}
              /\ page'.listeners \cap page.listeners = {}
              /\ page'.charts # {}
        /\ last'.op = "resize" => last'.onRemovedChart = {} ]_vars

\* The page was mounted, the selection changed twice, and the window was
\* resized: the third chart is the only one, with the only listener
C24_Witness ==
    /\ last.op = "resize"
    /\ page.mounted
    /\ page.created = 3
    /\ page.charts = {3}
    /\ last.handlers = {3}

\* The 20 keys of usePriceHistory over the options and timeframes of the page
PageHistoryHashes ==
    { Serialize(usePriceHistory(f, p).queryKey) :
        f \in {"uco", "tallow", "canola", "palm"}, p \in {"1D", "1W", "1M", "3M", "1Y"} }

\* C25: in PricesDashboard, after any sequence of KPI-card and timeframe
\* clicks, selectedFeedstock is one of uco, tallow, canola, palm and timeframe
\* one of 1D, 1W, 1M, 3M, 1Y; so the price-history query is enabled in every
\* reachable state, and the entries the view creates are among the 20 keys
\* ["prices","history",feedstock,period].
C25_SelectionSets ==
    /\ page.selectedFeedstock \in {"uco", "tallow", "canola", "palm"}
    /\ page.timeframe \in {"1D", "1W", "1M", "3M", "1Y"}
    /\ usePriceHistory(page.selectedFeedstock, page.timeframe).enabled
    /\ Cardinality(PageHistoryHashes) = 20
    /\ \A e \in cache : e.hash \in PageHistoryHashes
    /\ Cardinality(cache) <= 20
    /\ page.mounted =>
          \E e \in cache :
             /\ e.hash = Serialize(usePriceHistory(page.selectedFeedstock,
                                                   page.timeframe).queryKey)
             /\ e.refs = 1

\* After a click on the Palm Oil card and one on 3M the view has created
\* three history entries and is subscribed to the last
C25_Witness ==
    /\ page.mounted
    /\ page.selectedFeedstock = "palm" /\ page.timeframe = "3M"
    /\ Cardinality(cache) = 3
    /\ \E e \in cache : e.hash = "[\"prices\",\"history\",\"palm\",\"3M\"]" /\ e.refs = 1
    /\ \E e \in cache : e.hash = "[\"prices\",\"history\",\"uco\",\"1M\"]" /\ e.refs = 0

\* C26: generateMockOHLCData returns, for every feedstock and timeframe and
\* every outcome of the random draws, exactly days+1 candles (days = 24, 7,
\* 30, 90 for 1D, 1W, 1M, 3M and 365 otherwise) whose time values are
\* strictly increasing, each candle opening at the previous candle's close
\* (the first at the base price), with low <= min(open, close) <=
\* max(open, close) <= high for every candle.
C26_MockOHLCSeries ==
    (last.op = "render" /\ last.in.component = "generateMockOHLCData") =>
       LET data == last.output
           tf == last.in.timeframe
           n == IF tf = "1D" THEN 24 ELSE IF tf = "1W" THEN 7 ELSE IF tf = "1M" THEN 30
                ELSE IF tf = "3M" THEN 90 ELSE 365
       IN  /\ Len(data) = n + 1
           /\ \A k \in 1..(Len(data) - 1) :
                 /\ data[k].time < data[k + 1].time
                 /\ data[k + 1].open = data[k].close
           /\ data[1].open = 10000 * basePrice(last.in.feedstock)
           /\ \A k \in 1..Len(data) :
                 /\ data[k].low <= data[k].open /\ data[k].low <= data[k].close
                 /\ data[k].open <= data[k].high /\ data[k].close <= data[k].high

\* C28: in the carbon calculator, for every annual production from 10000 to
\* 500000 in steps of 5000, every feedstock type, every certification scheme
\* and every pair of carbon prices, the displayed Estimated Annual Revenue
\* (totalRevenue) equals the displayed EU ETS revenue plus the displayed ACCU
\* revenue, the EU and ACCU revenues being computed on 60% and 40% of the
\* total credits.
C28_RevenueAddsUp ==
    (last.op = "render" /\ last.in.component = "ProjectedRevenue") =>
       LET shown == last.output
           revenue == shown.revenue
           in == last.in
           calculator == in.calculator
           \* the unrounded total credits, in quarters
           credits == (calculator.annualProduction \div 5000)
                      * (CASE calculator.feedstockType = "uco" -> 85
                           [] calculator.feedstockType = "tallow" -> 75
                           [] calculator.feedstockType = "canola" -> 65
                           [] OTHER -> 55)
                      * (IF calculator.certificationScheme = "iscc" THEN 23 ELSE 20)
       IN  /\ shown.euRevenue = formatCurrency(revenue.euRevenue)
           /\ shown.accuRevenue = formatCurrency(revenue.accuRevenue)
           /\ shown.totalRevenue = formatCurrency(revenue.totalRevenue)
           /\ revenue.euRevenue
                = MathRound((6 * credits * findPrice(in.carbonPrices, "EU", 800)) \div 2)
           /\ revenue.accuRevenue
                = MathRound((4 * credits * findPrice(in.carbonPrices, "ACCU", 350)) \div 2)
           /\ revenue.totalRevenue = revenue.euRevenue + revenue.accuRevenue

====
